---- MODULE Spec2Model ----
(***************************************************************************)
(* Model of the nmap output parser of cyberrange_scanner.py:               *)
(* NetworkScanPage.parse_and_store_nmap and the two tables it writes       *)
(* (devices, vulnerabilities).  Lines are real strings; the substring,     *)
(* split and regular-expression steps of the code are computed on them.    *)
(* Around it: init_db, start_scan, ScanThread.run on its own thread, and   *)
(* finish_scan and save_scan_results on the thread of the window.          *)
(***************************************************************************)
EXTENDS Integers, Sequences, FiniteSets, TLC

(***************************************************************************)
(* Bounds of the exploration.                                              *)
(***************************************************************************)
\* parse passes (calls of parse_and_store_nmap) explored
MaxScans == 2
\* lines of one output when the lines are drawn one by one
MaxLines == 3
\* lines of one output when the whole output is fixed in advance
MaxLen == 3

\* storage errors raised over a behaviour
MaxFaults == 1
\* starts of the application process
MaxBoots == 2

(***************************************************************************)
(* Python values.  None is the empty tuple, a str s is <<s>>.              *)
(***************************************************************************)
None == << >>

Some(s) == << s >>

\* Python truthiness of an Optional[str]: None and '' are false
Truthy(v) == v # None /\ v[1] # ""

(***************************************************************************)
(* String primitives (str methods and the pieces of the re patterns).      *)
(***************************************************************************)
Char(s, i) == SubSeq(s, i, i)

IsSpace(c) == c \in {" ", "\t", "\r", "\n", "\f"}

IsDigit(c) == c \in {"0", "1", "2", "3", "4", "5", "6", "7", "8", "9"}

\* the character class [0-9A-Fa-f:] of mac_pattern
IsMacChar(c) ==
    IsDigit(c) \/ c \in {"A", "B", "C", "D", "E", "F", "a", "b", "c", "d", "e", "f", ":"}

UpperLetters == "ABCDEFGHIJKLMNOPQRSTUVWXYZ"

LowerLetters == "abcdefghijklmnopqrstuvwxyz"

LowerChar(c) ==
    IF \E i \in 1..26 : Char(UpperLetters, i) = c
    THEN Char(LowerLetters, CHOOSE i \in 1..26 : Char(UpperLetters, i) = c)
    ELSE c

RECURSIVE Lower(_)
\* str.lower()
Lower(s) == IF s = "" THEN "" ELSE LowerChar(Char(s, 1)) \o Lower(Tail(s))

\* s[i:] starts with p (i is 1-based)
MatchAt(s, i, p) == i + Len(p) - 1 <= Len(s) /\ SubSeq(s, i, i + Len(p) - 1) = p

\* str.startswith
StartsWith(s, p) == MatchAt(s, 1, p)

\* the positions at which p occurs in s
Occurrences(s, p) == {i \in 1..(Len(s) - Len(p) + 1) : MatchAt(s, i, p)}

\* p in s
Contains(s, p) == Occurrences(s, p) # {}

Min(S) == CHOOSE x \in S : \A y \in S : x <= y

RECURSIVE LStrip(_)
LStrip(s) == IF s # "" /\ IsSpace(Char(s, 1)) THEN LStrip(Tail(s)) ELSE s

RECURSIVE RStrip(_)
RStrip(s) ==
    IF s # "" /\ IsSpace(Char(s, Len(s))) THEN RStrip(SubSeq(s, 1, Len(s) - 1)) ELSE s

\* str.strip()
Strip(s) == RStrip(LStrip(s))

RECURSIVE LStripParens(_)
LStripParens(s) ==
    IF s # "" /\ Char(s, 1) \in {"(", ")"} THEN LStripParens(Tail(s)) ELSE s

RECURSIVE RStripParens(_)
RStripParens(s) ==
    IF s # "" /\ Char(s, Len(s)) \in {"(", ")"}
    THEN RStripParens(SubSeq(s, 1, Len(s) - 1)) ELSE s

\* str.strip('()')
StripParens(s) == RStripParens(LStripParens(s))

\* length of the longest prefix of s[i:] made of characters satisfying the class
RECURSIVE SpanSpace(_, _)
SpanSpace(s, i) == IF i <= Len(s) /\ IsSpace(Char(s, i)) THEN 1 + SpanSpace(s, i + 1) ELSE 0

RECURSIVE SpanNonSpace(_, _)
SpanNonSpace(s, i) ==
    IF i <= Len(s) /\ ~IsSpace(Char(s, i)) THEN 1 + SpanNonSpace(s, i + 1) ELSE 0

RECURSIVE SpanDigits(_, _)
SpanDigits(s, i) == IF i <= Len(s) /\ IsDigit(Char(s, i)) THEN 1 + SpanDigits(s, i + 1) ELSE 0

RECURSIVE SpanMac(_, _)
SpanMac(s, i) == IF i <= Len(s) /\ IsMacChar(Char(s, i)) THEN 1 + SpanMac(s, i + 1) ELSE 0

RECURSIVE SplitFrom(_, _)
SplitFrom(s, i) ==
    LET j == i + SpanSpace(s, i)
        n == SpanNonSpace(s, j)
    IN  IF j > Len(s) THEN << >> ELSE << SubSeq(s, j, j + n - 1) >> \o SplitFrom(s, j + n)

\* str.split(): the whitespace-separated tokens
Split(s) == SplitFrom(s, 1)

\* str.split(sep)[0]: the text before the first occurrence of sep
BeforeFirst(s, sep) ==
    IF Contains(s, sep) THEN SubSeq(s, 1, Min(Occurrences(s, sep)) - 1) ELSE s

DigitValue(c) == CHOOSE d \in 0..9 : Char("0123456789", d + 1) = c

RECURSIVE DigitsToInt(_)
DigitsToInt(s) ==
    IF s = "" THEN 0
    ELSE 10 * DigitsToInt(SubSeq(s, 1, Len(s) - 1)) + DigitValue(Char(s, Len(s)))

\* int(s) succeeds (otherwise ValueError); signs and digit separators of
\* the Python literal syntax do not occur in the modelled lines
IsIntLiteral(s) == s # "" /\ SpanDigits(s, 1) = Len(s)

ToInt(s) == DigitsToInt(s)

(***************************************************************************)
(* The patterns of parse_and_store_nmap.                                   *)
(***************************************************************************)
MacPrefix == "MAC Address: "

\* start positions of mac_pattern: the prefix followed by 17 [0-9A-Fa-f:]
MacStarts(ln) ==
    {i \in Occurrences(ln, MacPrefix) : SpanMac(ln, i + Len(MacPrefix)) >= 17}

\* the optional group (?:\s+\((.*?)\))? tried at position j
VendorAt(ln, j) ==
    LET w      == SpanSpace(ln, j)
        open   == j + w
        closes == {k \in (open + 1)..Len(ln) : Char(ln, k) = ")"}
    IN  IF w >= 1 /\ open <= Len(ln) /\ Char(ln, open) = "(" /\ closes # {}
        THEN Some(SubSeq(ln, open + 1, Min(closes) - 1))
        ELSE None

\* mac_pattern.search(line): None, or the groups (1) and (2)
mac_pattern(ln) ==
    IF MacStarts(ln) = {} THEN None
    ELSE LET i == Min(MacStarts(ln))
             m == i + Len(MacPrefix)
         IN  << [g1 |-> Some(SubSeq(ln, m, m + 16)), g2 |-> VendorAt(ln, m + 17)] >>

RunningMarker == "running: "

OsDetailsMarker == "os details: "

\* os_pattern.search(line) with re.IGNORECASE: the leftmost position where
\* one of the two alternatives matches, the first alternative tried first;
\* (.*?)$ takes the rest of the line
os_pattern(ln) ==
    LET low    == Lower(ln)
        starts == Occurrences(low, RunningMarker) \cup Occurrences(low, OsDetailsMarker)
    IN  IF starts = {} THEN None
        ELSE LET i == Min(starts)
             IN  IF MatchAt(low, i, RunningMarker)
                 THEN << [g1 |-> Some(SubSeq(ln, i + Len(RunningMarker), Len(ln))),
                          g2 |-> None] >>
                 ELSE << [g1 |-> None,
                          g2 |-> Some(SubSeq(ln, i + Len(OsDetailsMarker), Len(ln)))] >>

\* start positions of (\d+)/tcp
TcpStarts(s) ==
    {i \in 1..Len(s) : IsDigit(Char(s, i)) /\ MatchAt(s, i + SpanDigits(s, i), "/tcp")}

\* re.search(r'(\d+)/tcp', s): None or group (1)
port_match(s) ==
    IF TcpStarts(s) = {} THEN None
    ELSE LET i == Min(TcpStarts(s)) IN Some(SubSeq(s, i, i + SpanDigits(s, i) - 1))

\* start positions of (\d+)/tcp\s+(\S+)
TcpServiceStarts(s) ==
    {i \in TcpStarts(s) :
        LET j == i + SpanDigits(s, i) + 4
        IN  SpanSpace(s, j) >= 1 /\ SpanNonSpace(s, j + SpanSpace(s, j)) >= 1}

\* re.search(r'(\d+)/tcp\s+(\S+)', s): None or group (2)
service_match(s) ==
    IF TcpServiceStarts(s) = {} THEN None
    ELSE LET i == Min(TcpServiceStarts(s))
             j == i + SpanDigits(s, i) + 4
             k == j + SpanSpace(s, j)
         IN  Some(SubSeq(s, k, k + SpanNonSpace(s, k) - 1))

\* "Nmap scan report for" in line
IsHostHeader(ln) == Contains(ln, "Nmap scan report for")

\* line.split()[-1].strip('()')
HeaderIp(ln) == LET parts == Split(ln) IN StripParens(parts[Len(parts)])

IsPortsMarker(ln) == StartsWith(ln, "PORT      STATE SERVICE")

IsScriptMarker(ln) == StartsWith(ln, "Host script results:")

IsNoise(ln) ==
    \/ StartsWith(ln, "Discovered open port")
    \/ StartsWith(ln, "Initiating ")
    \/ StartsWith(ln, "Completed ")

\* len(parts) >= 3 and '/' in parts[0] and parts[1] in ['open', 'closed', 'filtered']
IsPortRow(parts) ==
    /\ Len(parts) >= 3
    /\ Contains(parts[1], "/")
    /\ parts[2] \in {"open", "closed", "filtered"}

IsScriptLine(ln) == StartsWith(ln, "|_") \/ StartsWith(ln, "| ")

\* the heuristic without its negation terms
is_vulnerable_NoNegation(script_output) ==
    LET low == Lower(script_output)
    IN  Contains(low, "vulnerable") \/ Contains(low, "vulnerability")

is_vulnerable(script_output) ==
    LET low == Lower(script_output)
    IN  /\ Contains(low, "vulnerable") \/ Contains(low, "vulnerability")
        /\ ~Contains(low, "false")
        /\ ~Contains(low, "could not negotiate")
        /\ ~Contains(low, "error")

script_port(script_output) ==
    IF port_match(script_output) # None /\ IsIntLiteral(port_match(script_output)[1])
    THEN ToInt(port_match(script_output)[1])
    ELSE 0

\* the family names tested in the other order
script_service_HttpFirst(script_output) ==
    IF service_match(script_output) # None THEN service_match(script_output)[1]
    ELSE IF Contains(script_output, "http-vuln") THEN "http"
    ELSE IF Contains(script_output, "smb-vuln") THEN "smb"
    ELSE "host_level_service"

script_service(script_output) ==
    IF service_match(script_output) # None THEN service_match(script_output)[1]
    ELSE IF Contains(script_output, "smb-vuln") THEN "smb"
    ELSE IF Contains(script_output, "http-vuln") THEN "http"
    ELSE "host_level_service"

(***************************************************************************)
(* What one iteration of the loop body computes from its line alone: the   *)
(* branch of the if/continue chain that takes the line, and the values     *)
(* the branch extracts.  Tabulated once per distinct line.                 *)
(***************************************************************************)
\* the chain without the test of the MAC pattern
Branch_NoMacTest(ln) ==
    IF ln = "" THEN "blank"
    ELSE IF IsHostHeader(ln) THEN "header"
    ELSE IF os_pattern(ln) # None THEN "os"
    ELSE IF IsPortsMarker(ln) THEN "ports_marker"
    ELSE IF IsScriptMarker(ln) THEN "script_marker"
    ELSE IF IsNoise(ln) THEN "noise"
    ELSE "content"

\* the first test of the chain that the stripped line passes
Branch(ln) ==
    IF ln = "" THEN "blank"
    ELSE IF IsHostHeader(ln) THEN "header"
    ELSE IF mac_pattern(ln) # None THEN "mac"
    ELSE IF os_pattern(ln) # None THEN "os"
    ELSE IF IsPortsMarker(ln) THEN "ports_marker"
    ELSE IF IsScriptMarker(ln) THEN "script_marker"
    ELSE IF IsNoise(ln) THEN "noise"
    ELSE "content"

\* the value the OS branch assigns to current_os (None: it assigns nothing)
OsGuess(ln) ==
    IF os_pattern(ln) = None THEN None
    ELSE IF Truthy(os_pattern(ln)[1].g1) THEN os_pattern(ln)[1].g1
    ELSE IF Truthy(os_pattern(ln)[1].g2) THEN os_pattern(ln)[1].g2
    ELSE None

\* the ports rule without the test of the state column
IsOpenPort_AnyState(ln) ==
    /\ IsPortRow(Split(ln))
    /\ IsIntLiteral(BeforeFirst(Split(ln)[1], "/"))

\* the ports rule inserts: a valid row, of state open, whose port converts
\* (int() raising ValueError is caught and the row dropped)
IsOpenPort(ln) ==
    /\ IsPortRow(Split(ln))
    /\ IsIntLiteral(BeforeFirst(Split(ln)[1], "/"))
    /\ Split(ln)[2] = "open"

\* the script rule writes
IsEvidence(ln) == IsScriptLine(ln) /\ is_vulnerable(ln)

Facts(raw) ==
    LET ln == Strip(raw)
    IN  [ text           |-> ln,
          branch         |-> Branch(ln),
          ip             |-> IF ln # "" THEN HeaderIp(ln) ELSE "",
          mac            |-> IF mac_pattern(ln) # None THEN mac_pattern(ln)[1].g1 ELSE None,
          vendor         |-> IF mac_pattern(ln) # None THEN mac_pattern(ln)[1].g2 ELSE None,
          os             |-> OsGuess(ln),
          open_port      |-> IsOpenPort(ln),
          port_num       |-> IF IsOpenPort(ln) THEN ToInt(BeforeFirst(Split(ln)[1], "/")) ELSE 0,
          service        |-> IF IsOpenPort(ln) THEN Split(ln)[3] ELSE "",
          evidence       |-> IsEvidence(ln),
          script_port    |-> script_port(ln),
          script_service |-> script_service(ln) ]

(***************************************************************************)
(* The lines an output is made of.                                         *)
(***************************************************************************)
HeaderA == "Nmap scan report for 10.0.0.5"

HeaderB == "Nmap scan report for gw.lan (10.0.0.6)"

HeaderEmpty == "Nmap scan report for ()"

MacVendorLine == "MAC Address: AA:BB:CC:DD:EE:FF (Acme Corp)"

MacBareLine == "MAC Address: 00:11:22:33:44:55"

OsDetailsLine == "OS details: Linux 5.4"

RunningLine == "Running: Linux 4.X"

PortsMarkerLine == "PORT      STATE SERVICE"

ScriptMarkerLine == "Host script results:"

OpenRow == "80/tcp    open  http"

ClosedRow == "22/tcp    closed ssh"

VulnLine == "|_http-vuln-cve2021-41773: VULNERABLE"

VulnPortLine == "| 80/tcp  http  State: VULNERABLE"

NegatedLine == "|_ssl-poodle: vulnerable, could not negotiate"

BlankLine == "  "

NoiseLine == "Discovered open port 80/tcp on 10.0.0.5"

OtherLine == "Not shown: 998 closed ports"

Lines ==
    { HeaderA, HeaderB, HeaderEmpty, MacVendorLine, MacBareLine, OsDetailsLine,
      RunningLine, PortsMarkerLine, ScriptMarkerLine, OpenRow, ClosedRow,
      VulnLine, VulnPortLine, NegatedLine, BlankLine, NoiseLine, OtherLine }

\* what ScanThread.run passes to finished when shutil.which("nmap") fails
NotFoundLine == "Nmap not found. Please install it and ensure it's in your system's PATH."

\* what it passes when Popen or the read loop raises
ScanErrorLine == "An error occurred during Nmap scan: [Errno 13] Permission denied: 'nmap'"

DoneUpLine == "Nmap done: 1 IP address (1 host up) scanned in 0.52 seconds"

DoneDownLine == "Nmap done: 1 IP address (0 hosts up) scanned in 3.05 seconds"

\* the summary of a scan of more than one address
DoneManyLine == "Nmap done: 2 IP addresses (2 hosts up) scanned in 3.10 seconds"

ProgressLine == "SYN Stealth Scan Timing: About 45.50% done; ETC: 12:00 (0:00:10 remaining)"

UnknownPropertyLine == "Unknown property transform"

\* "% done" lines whose percentage is no number, and is an infinity
GarbledPercentLine == "Connect Scan Timing: About n/a% done"

InfPercentLine == "Connect Scan Timing: About inf% done; ETC: never"

\* what the read loop passes to finished when int() raises OverflowError
OverflowErrorLine ==
    "An error occurred during Nmap scan: cannot convert float infinity to integer"

\* lines that only a run of the tool contributes
ToolLines ==
    { NotFoundLine, ScanErrorLine, DoneUpLine, DoneDownLine, ProgressLine,
      UnknownPropertyLine, GarbledPercentLine, InfPercentLine, OverflowErrorLine,
      DoneManyLine }

\* script lines of other families, and lines that pass more than one test of
\* the if/continue chain
HttpVulnLine2 == "|_http-vuln-cve2017-5638: VULNERABLE"

SmbVulnLine == "|_smb-vuln-ms17-010: VULNERABLE (http-vuln checked)"

HostVulnLine == "|_ssl-heartbleed: VULNERABLE"

TwoPortsVulnLine == "| 443/tcp: VULNERABLE, then 8443/tcp  https-alt"

OsScriptLine == "| Running: Apache 2.4.49 VULNERABLE"

MacRowLine == "80/tcp open MAC Address: AA:BB:CC:DD:EE:FF"

BadRow == "http/tcp open  http"

InitiatingLine == "Initiating SYN Stealth Scan at 12:00"

MoreLines ==
    { HttpVulnLine2, SmbVulnLine, HostVulnLine, TwoPortsVulnLine, OsScriptLine,
      MacRowLine, BadRow, InitiatingLine }

AllLines == Lines \cup ToolLines \cup MoreLines

LineFacts == [raw \in AllLines |-> Facts(raw)]

F(raw) == LineFacts[raw]

(***************************************************************************)
(* ScanThread.run, per line of the tool's standard output.                 *)
(***************************************************************************)
\* float(tok) is an infinity, which int() refuses with OverflowError
IsInfinity(tok) ==
    LET signed == tok # "" /\ Char(tok, 1) \in {"+", "-"}
        body   == Lower(IF signed THEN Tail(tok) ELSE tok)
    IN  body \in {"inf", "infinity"}

\* int(float(tok)) for the plain decimal forms [+-]digits[.digits]; None is
\* ValueError (also for nan) and for an infinity stands in for the
\* OverflowError that IsInfinity tells apart.  Exponents and underscores do
\* not occur in the modelled lines.
IntOfFloat(tok) ==
    LET signed == tok # "" /\ Char(tok, 1) \in {"+", "-"}
        body   == IF signed THEN Tail(tok) ELSE tok
        whole  == SpanDigits(body, 1)
        dot    == MatchAt(body, whole + 1, ".")
        frac   == IF dot THEN SpanDigits(body, whole + 2) ELSE 0
        used   == whole + (IF dot THEN 1 ELSE 0) + frac
        value  == DigitsToInt(SubSeq(body, 1, whole))
    IN  IF used = Len(body) /\ whole + frac >= 1
        THEN Some(IF signed /\ Char(tok, 1) = "-" THEN 0 - value ELSE value)
        ELSE None

\* int(float(line.split('%')[0].split()[-1])); None is ValueError or
\* IndexError, both passed over
Percent(raw) ==
    LET tokens == Split(BeforeFirst(raw, "%"))
    IN  IF tokens = << >> THEN None ELSE IntOfFloat(tokens[Len(tokens)])

\* the conversion of the percentage raises an exception that the except
\* clause of line 254 does not name
PercentOverflows(raw) ==
    LET tokens == Split(BeforeFirst(raw, "%"))
    IN  tokens # << >> /\ IsInfinity(tokens[Len(tokens)])

\* the success test of finish_scan, on one line of the output
IsDoneMarker(raw) ==
    \/ Contains(raw, "Nmap done: 1 IP address (1 host up)")
    \/ Contains(raw, "Nmap done: 1 IP address (0 hosts up)")

RunFacts(raw) ==
    [ skipped |-> Contains(raw, "Unknown property"),
      shown   |-> Strip(raw),
      percent |-> IF Contains(raw, "% done") THEN Percent(raw) ELSE None,
      raises  |-> /\ ~Contains(raw, "Unknown property")
                  /\ Contains(raw, "% done")
                  /\ PercentOverflows(raw),
      done    |-> IsDoneMarker(raw) ]

RunLineFacts == [raw \in AllLines |-> RunFacts(raw)]

G(raw) == RunLineFacts[raw]

\* "Nmap done: ..." in output
LooksDone(output) == \E i \in DOMAIN output : G(output[i]).done

(***************************************************************************)
(* What the tool does when a scan thread runs it.                          *)
(***************************************************************************)
\* shutil.which("nmap") returns None
ToolMissing == [kind |-> "missing", prints |-> << >>, exit |-> 0]

\* Popen raises
ToolFails == [kind |-> "raises", prints |-> << >>, exit |-> 0]

\* one host up with its address and system, a clean exit
ToolHostUp ==
    [kind |-> "runs",
     prints |-> << NoiseLine, HeaderA, MacVendorLine, OsDetailsLine, BlankLine, DoneUpLine >>,
     exit |-> 0]

\* the tool dies inside the script results of its host: a partial output
ToolKilled ==
    [kind |-> "runs",
     prints |-> << HeaderB, PortsMarkerLine, OpenRow, ScriptMarkerLine, VulnLine >>,
     exit |-> 1]

\* progress statistics and a line the loop filters out, host down
ToolHostDown ==
    [kind |-> "runs",
     prints |-> << ProgressLine, GarbledPercentLine, UnknownPropertyLine, DoneDownLine >>,
     exit |-> 0]

\* two addresses scanned (a target such as "10.0.0.5,10.0.0.6"), both up
ToolTwoHosts ==
    [kind |-> "runs", prints |-> << HeaderA, HeaderB, DoneManyLine >>, exit |-> 0]

\* statistics with an infinite percentage, then the end of the report
ToolInfinite ==
    [kind |-> "runs", prints |-> << HeaderA, InfPercentLine, DoneUpLine >>, exit |-> 0]

Tools ==
    { ToolMissing, ToolFails, ToolHostUp, ToolKilled, ToolHostDown, ToolInfinite,
      ToolTwoHosts }

\* what the user types in target_input, stripped ("" is refused)
Targets == { "10.0.0.5", "10.0.0.6" }

\* the entries of scan_type_combo
Templates == { "Quick Scan" }

(***************************************************************************)
(* State.                                                                  *)
(*   devices, vulnerabilities  the two tables as the parser's connection   *)
(*                             sees them; a row's id is its position       *)
(*   committed                 the tables as of the last conn.commit()     *)
(*   pc                        "idle", "loop" inside the for loop, or      *)
(*                             "raised" while an exception leaves it       *)
(*   ts                        the timestamp of the latest pass            *)
(*   current_*, parsing_*      the locals of parse_and_store_nmap          *)
(*   nmap_output               the argument: either fixed in advance       *)
(*                             (known) or drawn line by line               *)
(*   consumed                  lines of nmap_output read in this pass      *)
(*   line                      the loop variable: the line last read       *)
(*   hosts_seen                history: hosts named by a header line read  *)
(*                             in this pass                                *)
(*   snapshot                  history: the tables at the entry of the     *)
(*                             latest pass                                 *)
(*   faults                    sqlite3.Error exceptions raised so far      *)
(*   alive, boots              the application process runs; its starts    *)
(*   schema                    the three tables exist in the database file *)
(*   scans                     the scans table (committed at each insert)  *)
(*   threads                   every ScanThread created, in order          *)
(*   scan_thread               self.scan_thread: position in threads of    *)
(*                             the latest one (0: the placeholder)         *)
(*   inbox                     signals queued for the thread of the window *)
(*   ui                        "idle", or the statement of finish_scan the *)
(*                             thread of the window has reached            *)
(*   handled                   the finished signal finish_scan is handling *)
(*   results_display           the text widget of the scan page            *)
(*   progress_chart            the value of the dashboard's progress chart *)
(*   dashboard, activity_feed  the statistics and the feed of the          *)
(*                             dashboard                                   *)
(*   completed                 history: emissions of scan_completed        *)
(***************************************************************************)
VARIABLES devices, vulnerabilities, committed, pc, ts,
          current_ip, current_mac, current_vendor, current_os,
          parsing_ports_section, parsing_host_script_results,
          nmap_output, consumed, line, hosts_seen, snapshot, faults,
          alive, boots, schema, scans, threads, scan_thread, inbox, ui, handled,
          results_display, progress_chart, dashboard, activity_feed, completed

vars == << devices, vulnerabilities, committed, pc, ts,
           current_ip, current_mac, current_vendor, current_os,
           parsing_ports_section, parsing_host_script_results,
           nmap_output, consumed, line, hosts_seen, snapshot, faults,
           alive, boots, schema, scans, threads, scan_thread, inbox, ui, handled,
           results_display, progress_chart, dashboard, activity_feed, completed >>

\* the process, the scan threads and the widgets
app == << alive, boots, schema, scans, threads, scan_thread, inbox, ui, handled,
          results_display, progress_chart, dashboard, activity_feed, completed >>

\* what parse_and_store_nmap itself never touches
env == << faults, app >>

\* the locals of parse_and_store_nmap and the histories of a pass
pass == << pc, ts, current_ip, current_mac, current_vendor, current_os,
           parsing_ports_section, parsing_host_script_results, nmap_output,
           consumed, line, hosts_seen, snapshot >>

store == << devices, vulnerabilities, committed >>

accumulator == << current_ip, current_mac, current_vendor, current_os >>

section == << parsing_ports_section, parsing_host_script_results >>

(***************************************************************************)
(* The SQL statements.                                                     *)
(***************************************************************************)
HasDevice(devs, ip) == \E i \in DOMAIN devs : devs[i].ip = ip

NewDevice(ip) ==
    [ip |-> ip, mac |-> None, vendor |-> None, os |-> None, status |-> None,
     last_seen |-> None]

\* a plain INSERT on a column that is not UNIQUE
InsertOrIgnoreDevice_Plain(devs, ip) == Append(devs, NewDevice(ip))

\* INSERT OR IGNORE INTO devices (ip) VALUES (?)   -- ip is UNIQUE
InsertOrIgnoreDevice(devs, ip) ==
    IF HasDevice(devs, ip) THEN devs ELSE Append(devs, NewDevice(ip))

\* an UPDATE that keeps a stored mac or vendor when the new one is NULL
UpdateDevice_KeepNonNull(devs, stamp, mac, vendor, os, ip) ==
    [i \in DOMAIN devs |->
        IF devs[i].ip = ip
        THEN [devs[i] EXCEPT !.status = Some("up"), !.last_seen = Some(stamp),
                             !.mac = IF mac = None THEN @ ELSE mac,
                             !.vendor = IF vendor = None THEN @ ELSE vendor,
                             !.os = os]
        ELSE devs[i]]

\* UPDATE devices SET status = 'up', last_seen = ?, mac = ?, vendor = ?, os = ? WHERE ip = ?
UpdateDevice(devs, stamp, mac, vendor, os, ip) ==
    [i \in DOMAIN devs |->
        IF devs[i].ip = ip
        THEN [devs[i] EXCEPT !.status = Some("up"), !.last_seen = Some(stamp),
                             !.mac = mac, !.vendor = vendor, !.os = os]
        ELSE devs[i]]

\* a device save that updates only the row it has just inserted
SaveDevice_InsertOnly(devs, stamp, mac, vendor, os, ip) ==
    IF HasDevice(devs, ip) THEN devs
    ELSE UpdateDevice(InsertOrIgnoreDevice(devs, ip), stamp, mac, vendor, os, ip)

\* the two statements of a device save
SaveDevice(devs, stamp, mac, vendor, os, ip) ==
    UpdateDevice(InsertOrIgnoreDevice(devs, ip), stamp, mac, vendor, os, ip)

\* SELECT id FROM vulnerabilities WHERE device_ip = ? AND port = ? AND service = ?
SelectVuln(vulns, ip, port, service) ==
    {i \in DOMAIN vulns :
        vulns[i].device_ip = ip /\ vulns[i].port = port /\ vulns[i].service = service}

\* INSERT INTO vulnerabilities (device_ip, port, service, script_output, severity, timestamp)
InsertVuln(vulns, ip, port, service, script_output, severity, stamp) ==
    Append(vulns, [device_ip |-> ip, port |-> port, service |-> service,
                   script_output |-> script_output, severity |-> severity,
                   timestamp |-> stamp])

\* UPDATE vulnerabilities SET script_output = ?, severity = ?, timestamp = ? WHERE id = ?
UpdateVuln(vulns, script_output, severity, stamp, id) ==
    [vulns EXCEPT ![id] = [@ EXCEPT !.script_output = script_output,
                                    !.severity = severity, !.timestamp = stamp]]

\* the open-port branch refreshing the timestamp of the row it finds
StoreOpenPort_Refresh(vulns, ip, port, service, stamp) ==
    IF SelectVuln(vulns, ip, port, service) = {}
    THEN InsertVuln(vulns, ip, port, service, "Open port detected", "Informational", stamp)
    ELSE [i \in DOMAIN vulns |->
            IF i \in SelectVuln(vulns, ip, port, service)
            THEN [vulns[i] EXCEPT !.timestamp = stamp] ELSE vulns[i]]

\* the open-port branch writing the informational row over the row it finds
StoreOpenPort_Replace(vulns, ip, port, service, stamp) ==
    IF SelectVuln(vulns, ip, port, service) = {}
    THEN InsertVuln(vulns, ip, port, service, "Open port detected", "Informational", stamp)
    ELSE [i \in DOMAIN vulns |->
            IF i \in SelectVuln(vulns, ip, port, service)
            THEN [vulns[i] EXCEPT !.script_output = "Open port detected",
                                  !.severity = "Informational", !.timestamp = stamp]
            ELSE vulns[i]]

\* the open-port branch resetting the severity of the row it finds
StoreOpenPort_Downgrade(vulns, ip, port, service, stamp) ==
    IF SelectVuln(vulns, ip, port, service) = {}
    THEN InsertVuln(vulns, ip, port, service, "Open port detected", "Informational", stamp)
    ELSE [i \in DOMAIN vulns |->
            IF i \in SelectVuln(vulns, ip, port, service)
            THEN [vulns[i] EXCEPT !.severity = "Informational"] ELSE vulns[i]]

\* the open-port branch without the SELECT that guards the insert
StoreOpenPort_NoSelect(vulns, ip, port, service, stamp) ==
    InsertVuln(vulns, ip, port, service, "Open port detected", "Informational", stamp)

\* the open-port branch: insert the informational row unless the key exists
StoreOpenPort(vulns, ip, port, service, stamp) ==
    IF SelectVuln(vulns, ip, port, service) = {}
    THEN InsertVuln(vulns, ip, port, service, "Open port detected", "Informational", stamp)
    ELSE vulns

\* the script branch without the SELECT: always an INSERT
StoreScriptFinding_AlwaysInsert(vulns, ip, port, service, script_output, stamp) ==
    InsertVuln(vulns, ip, port, service, script_output, "High", stamp)

\* the script branch updating severity and timestamp but not the evidence
StoreScriptFinding_KeepEvidence(vulns, ip, port, service, script_output, stamp) ==
    LET existing_vuln == SelectVuln(vulns, ip, port, service)
    IN  IF existing_vuln # {}
        THEN UpdateVuln(vulns, vulns[Min(existing_vuln)].script_output, "High", stamp,
                        Min(existing_vuln))
        ELSE InsertVuln(vulns, ip, port, service, script_output, "High", stamp)

\* the script branch: update the row fetchone() returned, else insert
StoreScriptFinding(vulns, ip, port, service, script_output, stamp) ==
    LET existing_vuln == SelectVuln(vulns, ip, port, service)
    IN  IF existing_vuln # {}
        THEN UpdateVuln(vulns, script_output, "High", stamp, Min(existing_vuln))
        ELSE InsertVuln(vulns, ip, port, service, script_output, "High", stamp)

(***************************************************************************)
(* The outputs a pass may be given, and the lines it may read next.        *)
(***************************************************************************)
\* first Nmap scenario of the specification's testable properties
ScenarioPorts == << HeaderA, MacVendorLine, PortsMarkerLine, OpenRow, BlankLine >>

\* the script results of one host: every family, a key written twice
ScenarioScripts ==
    << HeaderA, ScriptMarkerLine, VulnLine, VulnPortLine, SmbVulnLine, HostVulnLine,
       TwoPortsVulnLine, HttpVulnLine2 >>

\* blank lines inside the port table and inside the script results
ScenarioBlanks ==
    << HeaderA, PortsMarkerLine, BlankLine, OpenRow, ScriptMarkerLine, BlankLine, VulnLine >>

\* a second host whose report has no marker of its own
ScenarioHosts ==
    << HeaderA, PortsMarkerLine, HeaderB, OpenRow, ScriptMarkerLine, HeaderA, VulnLine >>

\* lines that are no row of the section they stand in, and noise
ScenarioMismatch ==
    << HeaderA, PortsMarkerLine, OtherLine, VulnLine, BadRow, InitiatingLine, OpenRow,
       ScriptMarkerLine, ClosedRow, NoiseLine, OtherLine, VulnLine >>

\* a port table after the script results, and lines that pass two tests
ScenarioOverlap ==
    << HeaderA, ScriptMarkerLine, OsScriptLine, PortsMarkerLine, MacRowLine, OpenRow >>

\* a port table before any host, then two hosts with a finding each
ScenarioTwoHosts ==
    << PortsMarkerLine, OpenRow, HeaderA, PortsMarkerLine, OpenRow, HeaderB,
       ScriptMarkerLine, VulnLine >>

Scenarios ==
    { ScenarioPorts, ScenarioScripts, ScenarioBlanks, ScenarioHosts, ScenarioMismatch,
      ScenarioOverlap, ScenarioTwoHosts }

Streams == UNION {[1..n -> Lines] : n \in 0..MaxLen} \cup Scenarios

\* An output whose lines are drawn one at a time takes them from one family:
\* the lines that feed the host accumulator, or those that feed the findings.
DeviceLines ==
    { HeaderA, HeaderB, HeaderEmpty, MacVendorLine, MacBareLine, OsDetailsLine,
      RunningLine, BlankLine }

FindingLines ==
    { HeaderA, HeaderB, PortsMarkerLine, ScriptMarkerLine, OpenRow, ClosedRow,
      VulnLine, VulnPortLine, NegatedLine, NoiseLine, OtherLine }

Families == {DeviceLines, FindingLines}

Drawn(family) == [known |-> FALSE, lines |-> << >>, from |-> family]

Fixed(stream) == [known |-> TRUE, lines |-> stream, from |-> Lines]

\* nmap_output.splitlines() still to be iterated: the next line
NextLines ==
    IF nmap_output.known
    THEN IF consumed < Len(nmap_output.lines) THEN {nmap_output.lines[consumed + 1]} ELSE {}
    ELSE IF consumed < MaxLines THEN nmap_output.from ELSE {}

\* the for loop has no line left
Exhausted == nmap_output.known => consumed = Len(nmap_output.lines)

\* the host a header line names (history only)
HostsNamed(raw) ==
    IF F(raw).text # "" /\ IsHostHeader(F(raw).text) /\ F(raw).ip # ""
    THEN {F(raw).ip} ELSE {}

\* one more line of the output has been read
Read(raw) ==
    /\ pc = "loop"
    /\ consumed' = consumed + 1
    /\ line' = Some(raw)
    /\ hosts_seen' = hosts_seen \cup HostsNamed(raw)
    /\ UNCHANGED << pc, ts, nmap_output, snapshot, env >>

(***************************************************************************)
(* parse_and_store_nmap, one action per branch of the loop body.           *)
(***************************************************************************)
NoStats == [scans |-> 0, devices |-> 0, live |-> 0, vulnerabilities |-> 0]

FeedHeader == [level |-> "header", text |-> "Recent Activity"]

\* the application has started on an initialised, empty database and no
\* scan has been requested
Running ==
    /\ alive = TRUE
    /\ boots = 1
    /\ schema = TRUE
    /\ scans = << >>
    /\ threads = << >>
    /\ scan_thread = 0
    /\ inbox = << >>
    /\ ui = "idle"
    /\ handled = None
    /\ results_display = << >>
    /\ progress_chart = 0
    /\ dashboard = NoStats
    /\ activity_feed = << FeedHeader >>
    /\ completed = 0

Init ==
    /\ devices = << >>
    /\ vulnerabilities = << >>
    /\ committed = [devices |-> << >>, vulnerabilities |-> << >>]
    /\ pc = "idle"
    /\ ts = 0
    /\ current_ip = None
    /\ current_mac = None
    /\ current_vendor = None
    /\ current_os = None
    /\ parsing_ports_section = FALSE
    /\ parsing_host_script_results = FALSE
    /\ nmap_output \in {Drawn(family) : family \in Families}
    /\ consumed = 0
    /\ line = None
    /\ hosts_seen = {}
    /\ snapshot = [devices |-> << >>, vulnerabilities |-> << >>]
    /\ faults = 0
    /\ Running

\* the same, for an output fixed in advance and parsed again on every pass
InitStream ==
    /\ devices = << >>
    /\ vulnerabilities = << >>
    /\ committed = [devices |-> << >>, vulnerabilities |-> << >>]
    /\ pc = "idle"
    /\ ts = 0
    /\ current_ip = None
    /\ current_mac = None
    /\ current_vendor = None
    /\ current_os = None
    /\ parsing_ports_section = FALSE
    /\ parsing_host_script_results = FALSE
    /\ nmap_output \in {Fixed(stream) : stream \in Streams}
    /\ consumed = 0
    /\ line = None
    /\ hosts_seen = {}
    /\ snapshot = [devices |-> << >>, vulnerabilities |-> << >>]
    /\ faults = 0
    /\ Running

\* entry: connect, clear the locals, take the timestamp
BeginParse ==
    /\ pc = "idle"
    /\ ts < MaxScans
    /\ pc' = "loop"
    /\ ts' = ts + 1
    /\ current_ip' = None
    /\ current_mac' = None
    /\ current_vendor' = None
    /\ current_os' = None
    /\ parsing_ports_section' = FALSE
    /\ parsing_host_script_results' = FALSE
    /\ consumed' = 0
    /\ line' = None
    /\ hosts_seen' = {}
    /\ snapshot' = [devices |-> devices, vulnerabilities |-> vulnerabilities]
    /\ UNCHANGED << store, nmap_output >>

\* if not line: continue
SkipBlank(raw) ==
    /\ Read(raw)
    /\ F(raw).branch = "blank"
    /\ UNCHANGED << store, accumulator, section >>

\* the header branch without the reset of mac, vendor and os
HostHeader_KeepAccumulator(raw) ==
    /\ Read(raw)
    /\ F(raw).branch = "header"
    /\ IF Truthy(current_ip)
       THEN /\ devices' = SaveDevice(devices, ts, current_mac, current_vendor,
                                     current_os, current_ip[1])
            /\ committed' = [devices |-> devices', vulnerabilities |-> vulnerabilities]
       ELSE UNCHANGED << devices, committed >>
    /\ current_ip' = Some(F(raw).ip)
    /\ parsing_ports_section' = FALSE
    /\ parsing_host_script_results' = FALSE
    /\ UNCHANGED << vulnerabilities, current_mac, current_vendor, current_os >>

\* the header branch without the reset of the two section flags
HostHeader_KeepSection(raw) ==
    /\ Read(raw)
    /\ F(raw).branch = "header"
    /\ IF Truthy(current_ip)
       THEN /\ devices' = SaveDevice(devices, ts, current_mac, current_vendor,
                                     current_os, current_ip[1])
            /\ committed' = [devices |-> devices', vulnerabilities |-> vulnerabilities]
       ELSE UNCHANGED << devices, committed >>
    /\ current_ip' = Some(F(raw).ip)
    /\ current_mac' = None
    /\ current_vendor' = None
    /\ current_os' = None
    /\ UNCHANGED << vulnerabilities, section >>

\* a header that saves the held device but goes on under its ip
HostHeader_KeepIp(raw) ==
    /\ Read(raw)
    /\ F(raw).branch = "header"
    /\ IF Truthy(current_ip)
       THEN /\ devices' = SaveDevice(devices, ts, current_mac, current_vendor,
                                     current_os, current_ip[1])
            /\ committed' = [devices |-> devices', vulnerabilities |-> vulnerabilities]
       ELSE UNCHANGED << devices, committed >>
    /\ current_ip' = IF Truthy(current_ip) THEN current_ip ELSE Some(F(raw).ip)
    /\ current_mac' = None
    /\ current_vendor' = None
    /\ current_os' = None
    /\ parsing_ports_section' = FALSE
    /\ parsing_host_script_results' = FALSE
    /\ UNCHANGED vulnerabilities

\* "Nmap scan report for" in line: save the held device, start the new one
HostHeader(raw) ==
    /\ Read(raw)
    /\ F(raw).branch = "header"
    /\ IF Truthy(current_ip)
       THEN /\ devices' = SaveDevice(devices, ts, current_mac, current_vendor,
                                     current_os, current_ip[1])
            /\ committed' = [devices |-> devices', vulnerabilities |-> vulnerabilities]
       ELSE UNCHANGED << devices, committed >>
    /\ current_ip' = Some(F(raw).ip)
    /\ current_mac' = None
    /\ current_vendor' = None
    /\ current_os' = None
    /\ parsing_ports_section' = FALSE
    /\ parsing_host_script_results' = FALSE
    /\ UNCHANGED vulnerabilities

\* mac_match
MacLine(raw) ==
    /\ Read(raw)
    /\ F(raw).branch = "mac"
    /\ current_mac' = F(raw).mac
    /\ current_vendor' = F(raw).vendor
    /\ UNCHANGED << store, current_ip, current_os, section >>

\* os_match
OsLine(raw) ==
    /\ Read(raw)
    /\ F(raw).branch = "os"
    /\ current_os' = IF F(raw).os # None THEN F(raw).os ELSE current_os
    /\ UNCHANGED << store, current_ip, current_mac, current_vendor, section >>

\* line.startswith("PORT      STATE SERVICE")
PortsMarker(raw) ==
    /\ Read(raw)
    /\ F(raw).branch = "ports_marker"
    /\ parsing_ports_section' = TRUE
    /\ parsing_host_script_results' = FALSE
    /\ UNCHANGED << store, accumulator >>

\* line.startswith("Host script results:")
ScriptMarker(raw) ==
    /\ Read(raw)
    /\ F(raw).branch = "script_marker"
    /\ parsing_host_script_results' = TRUE
    /\ parsing_ports_section' = FALSE
    /\ UNCHANGED << store, accumulator >>

\* a noise line taken as the end of the section
Noise_EndsSection(raw) ==
    /\ Read(raw)
    /\ F(raw).branch = "noise"
    /\ parsing_ports_section' = FALSE
    /\ parsing_host_script_results' = FALSE
    /\ UNCHANGED << store, accumulator >>

\* Discovered open port / Initiating / Completed
Noise(raw) ==
    /\ Read(raw)
    /\ F(raw).branch = "noise"
    /\ UNCHANGED << store, accumulator, section >>

\* the ports rule leaving its section at a line that is no port row
PortsContent_EndsSection(raw) ==
    /\ Read(raw)
    /\ F(raw).branch = "content"
    /\ parsing_ports_section /\ Truthy(current_ip)
    /\ vulnerabilities' =
          IF F(raw).open_port
          THEN StoreOpenPort(vulnerabilities, current_ip[1], F(raw).port_num,
                             F(raw).service, ts)
          ELSE vulnerabilities
    /\ parsing_ports_section' = IsPortRow(Split(F(raw).text))
    /\ UNCHANGED << devices, committed, accumulator, parsing_host_script_results >>

\* if parsing_ports_section and current_ip: ... continue
\* (the open-port insert is not committed here)
PortsContent(raw) ==
    /\ Read(raw)
    /\ F(raw).branch = "content"
    /\ parsing_ports_section /\ Truthy(current_ip)
    /\ vulnerabilities' =
          IF F(raw).open_port
          THEN StoreOpenPort(vulnerabilities, current_ip[1], F(raw).port_num,
                             F(raw).service, ts)
          ELSE vulnerabilities
    /\ UNCHANGED << devices, committed, accumulator, section >>

\* the host-script rule leaving its section at a line that is no script line
ScriptContent_EndsSection(raw) ==
    /\ Read(raw)
    /\ F(raw).branch = "content"
    /\ ~(parsing_ports_section /\ Truthy(current_ip))
    /\ parsing_host_script_results /\ Truthy(current_ip)
    /\ IF F(raw).evidence
       THEN /\ vulnerabilities' =
                  StoreScriptFinding(vulnerabilities, current_ip[1], F(raw).script_port,
                                     F(raw).script_service, F(raw).text, ts)
            /\ committed' = [devices |-> devices, vulnerabilities |-> vulnerabilities']
       ELSE UNCHANGED << vulnerabilities, committed >>
    /\ parsing_host_script_results' = IsScriptLine(F(raw).text)
    /\ UNCHANGED << devices, accumulator, parsing_ports_section >>

\* if parsing_host_script_results and current_ip: ... continue
ScriptContent(raw) ==
    /\ Read(raw)
    /\ F(raw).branch = "content"
    /\ ~(parsing_ports_section /\ Truthy(current_ip))
    /\ parsing_host_script_results /\ Truthy(current_ip)
    /\ IF F(raw).evidence
       THEN /\ vulnerabilities' =
                  StoreScriptFinding(vulnerabilities, current_ip[1], F(raw).script_port,
                                     F(raw).script_service, F(raw).text, ts)
            /\ committed' = [devices |-> devices, vulnerabilities |-> vulnerabilities']
       ELSE UNCHANGED << vulnerabilities, committed >>
    /\ UNCHANGED << devices, accumulator, section >>

\* no section rule applies: the loop body ends without effect
Unsectioned(raw) ==
    /\ Read(raw)
    /\ F(raw).branch = "content"
    /\ ~(parsing_ports_section /\ Truthy(current_ip))
    /\ ~(parsing_host_script_results /\ Truthy(current_ip))
    /\ UNCHANGED << store, accumulator, section >>

\* the end of the function without the save of the last device
EndParse_NoFinalSave ==
    /\ pc = "loop"
    /\ Exhausted
    /\ committed' = [devices |-> devices, vulnerabilities |-> vulnerabilities]
    /\ pc' = "idle"
    /\ current_ip' = None
    /\ current_mac' = None
    /\ current_vendor' = None
    /\ current_os' = None
    /\ parsing_ports_section' = FALSE
    /\ parsing_host_script_results' = FALSE
    /\ line' = None
    /\ UNCHANGED << devices, vulnerabilities, ts, nmap_output, consumed, hosts_seen,
                    snapshot >>

\* after the loop: save the last device, commit, close
EndParse ==
    /\ pc = "loop"
    /\ Exhausted
    /\ devices' =
          IF Truthy(current_ip)
          THEN SaveDevice(devices, ts, current_mac, current_vendor, current_os,
                          current_ip[1])
          ELSE devices
    /\ committed' = [devices |-> devices', vulnerabilities |-> vulnerabilities]
    /\ pc' = "idle"
    /\ current_ip' = None
    /\ current_mac' = None
    /\ current_vendor' = None
    /\ current_os' = None
    /\ parsing_ports_section' = FALSE
    /\ parsing_host_script_results' = FALSE
    /\ line' = None
    /\ UNCHANGED << vulnerabilities, ts, nmap_output, consumed, hosts_seen, snapshot >>

\* the lines the if/continue chain hands to branch b
LinesOf(b) == {raw \in AllLines : F(raw).branch = b}

BlankLines == LinesOf("blank")

HeaderLines == LinesOf("header")

MacLines == LinesOf("mac")

OsLines == LinesOf("os")

PortsMarkerLines == LinesOf("ports_marker")

ScriptMarkerLines == LinesOf("script_marker")

NoiseLines == LinesOf("noise")

ContentLines == LinesOf("content")

Next ==
    \/ BeginParse /\ UNCHANGED env
    \/ \E raw \in NextLines \cap BlankLines : SkipBlank(raw)
    \/ \E raw \in NextLines \cap HeaderLines : HostHeader(raw)
    \/ \E raw \in NextLines \cap MacLines : MacLine(raw)
    \/ \E raw \in NextLines \cap OsLines : OsLine(raw)
    \/ \E raw \in NextLines \cap PortsMarkerLines : PortsMarker(raw)
    \/ \E raw \in NextLines \cap ScriptMarkerLines : ScriptMarker(raw)
    \/ \E raw \in NextLines \cap NoiseLines : Noise(raw)
    \/ \E raw \in NextLines \cap ContentLines : PortsContent(raw)
    \/ \E raw \in NextLines \cap ContentLines : ScriptContent(raw)
    \/ \E raw \in NextLines \cap ContentLines : Unsectioned(raw)
    \/ EndParse /\ UNCHANGED env

(***************************************************************************)
(* The same passes when a statement or a commit may raise sqlite3.Error.   *)
(* The statement that raises has no effect; the transaction it was part of *)
(* either stays open (kept) or is rolled back by the engine.               *)
(***************************************************************************)
Committed == [devices |-> devices, vulnerabilities |-> vulnerabilities]

\* a line is read and an error is raised while it is processed
ReadRaising(raw) ==
    /\ pc = "loop"
    /\ faults < MaxFaults
    /\ faults' = faults + 1
    /\ consumed' = consumed + 1
    /\ line' = Some(raw)
    /\ hosts_seen' = hosts_seen \cup HostsNamed(raw)
    /\ UNCHANGED << ts, nmap_output, snapshot, app >>

\* the try of the header branch raises: except sqlite3.Error logs, and the
\* branch goes on to start the new host
HostHeaderError(raw) ==
    /\ ReadRaising(raw)
    /\ F(raw).branch = "header"
    /\ Truthy(current_ip)
    /\ \E at \in {"insert", "update", "commit"}, kept \in BOOLEAN :
          /\ devices' =
                IF ~kept THEN committed.devices
                ELSE IF at = "insert" THEN devices
                ELSE IF at = "update" THEN InsertOrIgnoreDevice(devices, current_ip[1])
                ELSE SaveDevice(devices, ts, current_mac, current_vendor, current_os,
                                current_ip[1])
          /\ vulnerabilities' = IF kept THEN vulnerabilities ELSE committed.vulnerabilities
    /\ current_ip' = Some(F(raw).ip)
    /\ current_mac' = None
    /\ current_vendor' = None
    /\ current_os' = None
    /\ parsing_ports_section' = FALSE
    /\ parsing_host_script_results' = FALSE
    /\ UNCHANGED << committed, pc >>

\* the SELECT or the INSERT of the ports branch raises: the except of that
\* branch names ValueError and IndexError only, so the exception leaves
\* the function and the connection is dropped with its open transaction
PortsContentError(raw) ==
    /\ ReadRaising(raw)
    /\ F(raw).branch = "content"
    /\ parsing_ports_section /\ Truthy(current_ip)
    /\ F(raw).open_port
    /\ pc' = "raised"
    /\ devices' = committed.devices
    /\ vulnerabilities' = committed.vulnerabilities
    /\ UNCHANGED << committed, accumulator, section >>

\* the try of the script branch raises: except sqlite3.Error logs
ScriptContentError(raw) ==
    /\ ReadRaising(raw)
    /\ F(raw).branch = "content"
    /\ ~(parsing_ports_section /\ Truthy(current_ip))
    /\ parsing_host_script_results /\ Truthy(current_ip)
    /\ F(raw).evidence
    /\ \E at \in {"write", "commit"}, kept \in BOOLEAN :
          /\ vulnerabilities' =
                IF ~kept THEN committed.vulnerabilities
                ELSE IF at = "write" THEN vulnerabilities
                ELSE StoreScriptFinding(vulnerabilities, current_ip[1],
                                        F(raw).script_port, F(raw).script_service,
                                        F(raw).text, ts)
          /\ devices' = IF kept THEN devices ELSE committed.devices
    /\ UNCHANGED << committed, pc, accumulator, section >>

\* the final save, or the final commit of an open transaction, raises outside
\* any try
EndParseError ==
    /\ pc = "loop"
    /\ Exhausted
    /\ Truthy(current_ip) \/ Committed # committed
    /\ faults < MaxFaults
    /\ faults' = faults + 1
    /\ pc' = "raised"
    /\ devices' = committed.devices
    /\ vulnerabilities' = committed.vulnerabilities
    /\ UNCHANGED << committed, ts, accumulator, section, nmap_output, consumed, line,
                    hosts_seen, snapshot, app >>

\* the exception leaves parse_and_store_nmap and its caller
Unwind ==
    /\ pc = "raised"
    /\ pc' = "idle"
    /\ current_ip' = None
    /\ current_mac' = None
    /\ current_vendor' = None
    /\ current_os' = None
    /\ parsing_ports_section' = FALSE
    /\ parsing_host_script_results' = FALSE
    /\ line' = None
    /\ UNCHANGED << store, ts, nmap_output, consumed, hosts_seen, snapshot, env >>

NextFault ==
    \/ Next
    \/ \E raw \in NextLines \cap HeaderLines : HostHeaderError(raw)
    \/ \E raw \in NextLines \cap ContentLines : PortsContentError(raw)
    \/ \E raw \in NextLines \cap ContentLines : ScriptContentError(raw)
    \/ EndParseError
    \/ Unwind

\* any sequence of passes, each over any output of at most MaxLines lines
Spec == Init /\ [][Next]_vars

\* one output of at most MaxLen lines (or a named scenario), parsed on every pass
SpecStream == InitStream /\ [][Next]_vars

\* any sequence of passes in which at most MaxFaults storage errors are raised
SpecFault == Init /\ [][NextFault]_vars

(***************************************************************************)
(* The application around the parser.  The thread of the window runs one   *)
(* handler at a time (ui = "idle" between two); scan threads run beside    *)
(* it and reach it only through queued signals.                            *)
(***************************************************************************)
\* init_db with the DROP TABLE statements that its docstring describes
init_db_DropTables(exists, rows) == << >>

\* CREATE TABLE IF NOT EXISTS, for one table: its rows afterwards
init_db(exists, rows) == IF exists THEN rows ELSE << >>

RECURSIVE Reversed(_)
Reversed(seq) == IF seq = << >> THEN << >> ELSE Append(Reversed(Tail(seq)), Head(seq))

\* SELECT target, scan_type, timestamp FROM scans ORDER BY id DESC LIMIT 5
RecentScans(rows) == SubSeq(Reversed(rows), 1, Min({5, Len(rows)}))

\* the four COUNT(*) of update_dashboard, read on a connection of its own
Stats(rows, devs, vulns) ==
    [scans |-> Len(rows), devices |-> Len(devs),
     live |-> Cardinality({i \in DOMAIN devs : devs[i].status = Some("up")}),
     vulnerabilities |-> Len(vulns)]

\* the feed update_dashboard leaves: the header, then the recent scans
Feed(rows) ==
    << FeedHeader >> \o
    [i \in 1..Len(RecentScans(rows)) |->
        [level |-> "scan_info", text |-> RecentScans(rows)[i].target]]

\* MainWindow.update_dashboard
update_dashboard(rows) ==
    /\ dashboard' = Stats(rows, committed.devices, committed.vulnerabilities)
    /\ activity_feed' = Feed(rows)

\* a ScanThread as start_scan creates it
NewThread(target, scan_type, tool) ==
    [target |-> target, scan_type |-> scan_type, tool |-> tool, read |-> 0,
     output |-> << >>, sent |-> << >>, state |-> "started"]

Signal(name, sender, arg) == [signal |-> name, sender |-> sender, arg |-> arg]

StartMessage(scan_type, target) == "> Starting " \o scan_type \o " scan on " \o target

FinishMessage == "\n> --- Scan Finished ---"

\* the process ends: its threads, its widgets and any open transaction go
Halt ==
    /\ alive' = FALSE
    /\ threads' = [k \in DOMAIN threads |-> [threads[k] EXCEPT !.state = "dead"]]
    /\ scan_thread' = 0
    /\ inbox' = << >>
    /\ ui' = "idle"
    /\ handled' = None
    /\ results_display' = << >>
    /\ progress_chart' = 0
    /\ dashboard' = NoStats
    /\ activity_feed' = << >>
    /\ pc' = "idle"
    /\ current_ip' = None
    /\ current_mac' = None
    /\ current_vendor' = None
    /\ current_os' = None
    /\ parsing_ports_section' = FALSE
    /\ parsing_host_script_results' = FALSE
    /\ line' = None
    /\ devices' = committed.devices
    /\ vulnerabilities' = committed.vulnerabilities
    /\ UNCHANGED << committed, ts, nmap_output, consumed, hosts_seen, snapshot, faults,
                    boots, schema, scans, completed >>

\* the start of the application on a schema made clean first
Boot_CleanSchema ==
    /\ ~alive
    /\ boots < MaxBoots
    /\ alive' = TRUE
    /\ boots' = boots + 1
    /\ schema' = TRUE
    /\ scans' = << >>
    /\ committed' = [devices |-> << >>, vulnerabilities |-> << >>]
    /\ devices' = << >>
    /\ vulnerabilities' = << >>
    /\ dashboard' = NoStats
    /\ activity_feed' = << FeedHeader >>
    /\ UNCHANGED << pass, faults, threads, scan_thread, inbox, ui, handled,
                    results_display, progress_chart, completed >>

\* MainWindow.__init__: init_db(), then update_dashboard()
Boot ==
    /\ ~alive
    /\ boots < MaxBoots
    /\ alive' = TRUE
    /\ boots' = boots + 1
    /\ schema' = TRUE
    /\ scans' = init_db(schema, scans)
    /\ committed' = [devices |-> init_db(schema, committed.devices),
                     vulnerabilities |-> init_db(schema, committed.vulnerabilities)]
    /\ devices' = committed'.devices
    /\ vulnerabilities' = committed'.vulnerabilities
    /\ dashboard' = Stats(scans', committed'.devices, committed'.vulnerabilities)
    /\ activity_feed' = Feed(scans')
    /\ UNCHANGED << pass, faults, threads, scan_thread, inbox, ui, handled,
                    results_display, progress_chart, completed >>

\* the user closes the window between two handlers
Quit ==
    /\ alive
    /\ ui = "idle"
    /\ Halt

\* start_scan rebinding self.scan_thread has dropped the only reference to
\* a ScanThread that was still running; once its run() has returned the
\* QThread may be destroyed before it has finished, which ends the process
Destroyed ==
    /\ alive
    /\ \E k \in DOMAIN threads : k # scan_thread /\ threads[k].state = "finished"
    /\ Halt

\* NetworkScanPage.start_scan (an empty target is refused with a warning)
StartScan(target, scan_type, tool) ==
    /\ alive
    /\ ui = "idle"
    /\ target # ""
    /\ Len(threads) < MaxScans
    /\ results_display' = << StartMessage(scan_type, target) >>
    /\ activity_feed' =
          Append(activity_feed, [level |-> "scan_info", text |-> StartMessage(scan_type, target)])
    /\ threads' = Append(threads, NewThread(target, scan_type, tool))
    /\ scan_thread' = Len(threads) + 1
    /\ UNCHANGED << store, pass, faults, alive, boots, schema, scans, inbox, ui, handled,
                    progress_chart, dashboard, completed >>

\* what a thread step leaves alone
ThreadFrame ==
    UNCHANGED << store, pass, faults, alive, boots, schema, scans, scan_thread, ui,
                 handled, results_display, progress_chart, dashboard, activity_feed,
                 completed >>

\* run() without the return after the message of a missing tool
WorkerStart_NoReturn(k) ==
    /\ alive
    /\ threads[k].state = "started"
    /\ IF threads[k].tool.kind = "missing"
       THEN /\ inbox' = Append(inbox, Signal("finished", k, << NotFoundLine >>))
            /\ threads' = [threads EXCEPT
                             ![k].state = "reading",
                             ![k].sent = << Signal("finished", k, << NotFoundLine >>) >>]
       ELSE IF threads[k].tool.kind = "raises"
       THEN /\ inbox' = Append(inbox, Signal("finished", k, << ScanErrorLine >>))
            /\ threads' = [threads EXCEPT
                             ![k].state = "finished",
                             ![k].sent = << Signal("finished", k, << ScanErrorLine >>) >>]
       ELSE /\ inbox' = inbox
            /\ threads' = [threads EXCEPT ![k].state = "reading"]
    /\ ThreadFrame

\* ScanThread.run up to the read loop
WorkerStart(k) ==
    /\ alive
    /\ threads[k].state = "started"
    /\ IF threads[k].tool.kind = "missing"
       THEN /\ inbox' = Append(inbox, Signal("finished", k, << NotFoundLine >>))
            /\ threads' = [threads EXCEPT
                             ![k].state = "finished",
                             ![k].sent = << Signal("finished", k, << NotFoundLine >>) >>]
       ELSE IF threads[k].tool.kind = "raises"
       THEN /\ inbox' = Append(inbox, Signal("finished", k, << ScanErrorLine >>))
            /\ threads' = [threads EXCEPT
                             ![k].state = "finished",
                             ![k].sent = << Signal("finished", k, << ScanErrorLine >>) >>]
       ELSE /\ inbox' = inbox
            /\ threads' = [threads EXCEPT ![k].state = "reading"]
    /\ ThreadFrame

\* output += line, over the lines the loop does not filter out
RECURSIVE Kept(_)
Kept(prints) ==
    IF prints = << >> THEN << >>
    ELSE IF G(Head(prints)).skipped THEN Kept(Tail(prints))
    ELSE << Head(prints) >> \o Kept(Tail(prints))

\* the signals the loop emits, in order: progress for every kept line, then
\* scan_percent where the line carries a percentage
RECURSIVE Emitted(_, _)
Emitted(k, prints) ==
    IF prints = << >> THEN << >>
    ELSE IF G(Head(prints)).skipped THEN Emitted(k, Tail(prints))
    ELSE << Signal("progress", k, G(Head(prints)).shown) >> \o
         (IF G(Head(prints)).percent # None
          THEN << Signal("scan_percent", k, G(Head(prints)).percent[1]) >>
          ELSE << >>) \o
         Emitted(k, Tail(prints))

\* position of the first line at which the loop raises (0: none)
RECURSIVE RaisesAt(_, _)
RaisesAt(prints, n) ==
    IF n > Len(prints) THEN 0
    ELSE IF G(prints[n]).raises THEN n
    ELSE RaisesAt(prints, n + 1)

\* the read loop, over everything the tool prints before it closes its
\* output; the signals of one thread are queued in the order it emits them.
\* An exception raised inside the loop ends it: except Exception emits
\* finished with the message and run() returns.
WorkerRead(k) ==
    /\ alive
    /\ threads[k].state = "reading"
    /\ threads[k].read < Len(threads[k].tool.prints)
    /\ LET prints == threads[k].tool.prints
           n      == RaisesAt(prints, 1)
           taken  == IF n = 0 THEN prints ELSE SubSeq(prints, 1, n)
           queued == Emitted(k, taken) \o
                     (IF n = 0 THEN << >>
                      ELSE << Signal("finished", k, << OverflowErrorLine >>) >>)
       IN  /\ inbox' = inbox \o queued
           /\ threads' = [threads EXCEPT
                            ![k].read = Len(taken),
                            ![k].output = Kept(taken),
                            ![k].sent = @ \o queued,
                            ![k].state = IF n = 0 THEN "reading" ELSE "finished"]
    /\ ThreadFrame

\* a run() that reports a tool that did not exit cleanly as a failure
WorkerFinish_CheckExit(k) ==
    /\ alive
    /\ threads[k].state = "reading"
    /\ threads[k].read = Len(threads[k].tool.prints)
    /\ LET final == IF threads[k].tool.exit = 0 THEN threads[k].output
                    ELSE << ScanErrorLine >>
       IN  /\ inbox' = Append(inbox, Signal("finished", k, final))
           /\ threads' = [threads EXCEPT
                            ![k].state = "finished",
                            ![k].sent = Append(@, Signal("finished", k, final))]
    /\ ThreadFrame

\* readline() returns '': close, wait, emit finished (the exit status is
\* not looked at)
WorkerFinish(k) ==
    /\ alive
    /\ threads[k].state = "reading"
    /\ threads[k].read = Len(threads[k].tool.prints)
    /\ inbox' = Append(inbox, Signal("finished", k, threads[k].output))
    /\ threads' = [threads EXCEPT
                     ![k].state = "finished",
                     ![k].sent = Append(@, Signal("finished", k, threads[k].output))]
    /\ ThreadFrame

\* the thread of the window takes the next queued signal
Takes(name) ==
    /\ alive
    /\ ui = "idle"
    /\ inbox # << >>
    /\ Head(inbox).signal = name
    /\ inbox' = Tail(inbox)

\* NetworkScanPage.update_results
UpdateResults ==
    /\ Takes("progress")
    /\ results_display' = Append(results_display, Head(inbox).arg)
    /\ UNCHANGED << store, pass, faults, alive, boots, schema, scans, threads,
                    scan_thread, ui, handled, progress_chart, dashboard, activity_feed,
                    completed >>

\* progress_chart.setValue
SetProgress ==
    /\ Takes("scan_percent")
    /\ progress_chart' = Head(inbox).arg
    /\ UNCHANGED << store, pass, faults, alive, boots, schema, scans, threads,
                    scan_thread, ui, handled, results_display, dashboard, activity_feed,
                    completed >>

\* finish_scan up to the activity message; output is bound for the rest
FinishScan ==
    /\ Takes("finished")
    /\ handled' = Some(Head(inbox))
    /\ nmap_output' = Fixed(Head(inbox).arg)
    /\ results_display' = Append(results_display, FinishMessage)
    /\ activity_feed' =
          Append(activity_feed,
                 [level |-> IF LooksDone(Head(inbox).arg) THEN "success" ELSE "error",
                  text |-> threads[scan_thread].target])
    /\ ui' = "save"
    /\ UNCHANGED << store, pc, ts, accumulator, section, consumed, line, hosts_seen,
                    snapshot, faults, alive, boots, schema, scans, threads, scan_thread,
                    progress_chart, dashboard, completed >>

\* INSERT INTO scans (target, scan_type, timestamp, results) and commit
save_scan_results(rows, stamp) ==
    Append(rows, [target |-> threads[scan_thread].target,
                  scan_type |-> threads[scan_thread].scan_type,
                  timestamp |-> stamp, results |-> handled[1].arg])

\* self.save_scan_results(output)
SaveScanResults ==
    /\ alive
    /\ ui = "save"
    /\ scans' = save_scan_results(scans, ts)
    /\ ui' = "emit"
    /\ UNCHANGED << store, pass, faults, alive, boots, schema, threads, scan_thread,
                    inbox, handled, results_display, progress_chart, dashboard,
                    activity_feed, completed >>

\* self.scan_completed.emit(): handle_scan_completion runs at once
EmitCompleted ==
    /\ alive
    /\ ui = "emit"
    /\ completed' = completed + 1
    /\ update_dashboard(scans)
    /\ ui' = "parse"
    /\ UNCHANGED << store, pass, faults, alive, boots, schema, scans, threads,
                    scan_thread, inbox, handled, results_display, progress_chart >>

\* what the parser's entry and exit leave alone in the application
ParseFrame ==
    UNCHANGED << faults, alive, boots, schema, scans, threads, scan_thread, inbox,
                 handled, results_display, progress_chart, dashboard, activity_feed,
                 completed >>

\* self.parse_and_store_nmap(output): the entry
CallParse ==
    /\ alive
    /\ ui = "parse"
    /\ BeginParse
    /\ ui' = "parsing"
    /\ ParseFrame

\* parse_and_store_nmap returns
ReturnParse ==
    /\ alive
    /\ ui = "parsing"
    /\ EndParse
    /\ ui' = "dashboard"
    /\ ParseFrame

\* self.main_window.update_dashboard(), the last statement of finish_scan
UpdateDashboard ==
    /\ alive
    /\ ui = "dashboard"
    /\ update_dashboard(scans)
    /\ handled' = None
    /\ ui' = "idle"
    /\ UNCHANGED << store, pass, faults, alive, boots, schema, scans, threads,
                    scan_thread, inbox, results_display, progress_chart, completed >>

\* a fresh installation: no process, no tables
InitApp ==
    /\ devices = << >>
    /\ vulnerabilities = << >>
    /\ committed = [devices |-> << >>, vulnerabilities |-> << >>]
    /\ pc = "idle"
    /\ ts = 0
    /\ current_ip = None
    /\ current_mac = None
    /\ current_vendor = None
    /\ current_os = None
    /\ parsing_ports_section = FALSE
    /\ parsing_host_script_results = FALSE
    /\ nmap_output = Fixed(<< >>)
    /\ consumed = 0
    /\ line = None
    /\ hosts_seen = {}
    /\ snapshot = [devices |-> << >>, vulnerabilities |-> << >>]
    /\ faults = 0
    /\ alive = FALSE
    /\ boots = 0
    /\ schema = FALSE
    /\ scans = << >>
    /\ threads = << >>
    /\ scan_thread = 0
    /\ inbox = << >>
    /\ ui = "idle"
    /\ handled = None
    /\ results_display = << >>
    /\ progress_chart = 0
    /\ dashboard = NoStats
    /\ activity_feed = << >>
    /\ completed = 0

NextApp ==
    \/ Boot
    \/ Quit
    \/ Destroyed
    \/ \E target \in Targets, scan_type \in Templates, tool \in Tools :
          StartScan(target, scan_type, tool)
    \/ \E k \in DOMAIN threads : WorkerStart(k)
    \/ \E k \in DOMAIN threads : WorkerRead(k)
    \/ \E k \in DOMAIN threads : WorkerFinish(k)
    \/ UpdateResults
    \/ SetProgress
    \/ FinishScan
    \/ SaveScanResults
    \/ EmitCompleted
    \/ CallParse
    \/ \E raw \in NextLines \cap BlankLines : SkipBlank(raw)
    \/ \E raw \in NextLines \cap HeaderLines : HostHeader(raw)
    \/ \E raw \in NextLines \cap MacLines : MacLine(raw)
    \/ \E raw \in NextLines \cap OsLines : OsLine(raw)
    \/ \E raw \in NextLines \cap PortsMarkerLines : PortsMarker(raw)
    \/ \E raw \in NextLines \cap ScriptMarkerLines : ScriptMarker(raw)
    \/ \E raw \in NextLines \cap NoiseLines : Noise(raw)
    \/ \E raw \in NextLines \cap ContentLines : PortsContent(raw)
    \/ \E raw \in NextLines \cap ContentLines : ScriptContent(raw)
    \/ \E raw \in NextLines \cap ContentLines : Unsectioned(raw)
    \/ ReturnParse
    \/ UpdateDashboard

\* the application from its first start, any requests, any tool behaviour
SpecApp == InitApp /\ [][NextApp]_vars

\* the steps of the scan threads and of the handlers of the window's thread
Progress ==
    \/ \E k \in DOMAIN threads : WorkerStart(k) \/ WorkerRead(k) \/ WorkerFinish(k)
    \/ UpdateResults \/ SetProgress
    \/ FinishScan \/ SaveScanResults \/ EmitCompleted \/ CallParse
    \/ \E raw \in NextLines \cap BlankLines : SkipBlank(raw)
    \/ \E raw \in NextLines \cap HeaderLines : HostHeader(raw)
    \/ \E raw \in NextLines \cap MacLines : MacLine(raw)
    \/ \E raw \in NextLines \cap OsLines : OsLine(raw)
    \/ \E raw \in NextLines \cap PortsMarkerLines : PortsMarker(raw)
    \/ \E raw \in NextLines \cap ScriptMarkerLines : ScriptMarker(raw)
    \/ \E raw \in NextLines \cap NoiseLines : Noise(raw)
    \/ \E raw \in NextLines \cap ContentLines :
          PortsContent(raw) \/ ScriptContent(raw) \/ Unsectioned(raw)
    \/ ReturnParse
    \/ UpdateDashboard

\* the application scanning one target
NextAppLive ==
    \/ Boot
    \/ Quit
    \/ Destroyed
    \/ \E scan_type \in Templates, tool \in Tools : StartScan("10.0.0.6", scan_type, tool)
    \/ Progress

\* the application with threads that are scheduled and an event loop that
\* runs: a started thread and a queued signal are not left waiting forever
SpecAppLive == InitApp /\ [][NextAppLive]_vars /\ WF_vars(Progress)

(***************************************************************************)
(* Properties.                                                             *)
(***************************************************************************)
DeviceRows(devs, ip) == {i \in DOMAIN devs : devs[i].ip = ip}

Key(row) == << row.device_ip, row.port, row.service >>

KeyRows(vulns, key) == {i \in DOMAIN vulns : Key(vulns[i]) = key}

Keys(vulns) == {Key(vulns[i]) : i \in DOMAIN vulns}

\* the rows of severity Informational, in table order
InformationalRows(vulns) == SelectSeq(vulns, LAMBDA row : row.severity = "Informational")

\* this step is an iteration of the loop: line' is the line it read
LineStep == pc = "loop" /\ pc' = "loop" /\ consumed' = consumed + 1

\* this step saves the held device: a header with a host held, or the end
SaveStep ==
    /\ pc = "loop" /\ Truthy(current_ip)
    /\ \/ pc' = "idle"
       \/ LineStep /\ F(line'[1]).branch = "header"

\* the line just read fell to the ports rule of a held host
PortsRuleStep ==
    /\ LineStep
    /\ parsing_ports_section /\ Truthy(current_ip)
    /\ F(line'[1]).branch = "content"

\* the line just read fell to the host-script rule of a held host
ScriptRuleStep ==
    /\ LineStep
    /\ parsing_host_script_results /\ ~parsing_ports_section /\ Truthy(current_ip)
    /\ F(line'[1]).branch = "content"

\* <port>/<proto>
IsPortProto(field) ==
    LET n == SpanDigits(field, 1)
    IN  n >= 1 /\ MatchAt(field, n + 1, "/") /\ Len(field) > n + 1

\* first position from i on where <digits>/tcp begins, with a token after
\* white space behind it when one is asked for (0: none)
RECURSIVE FindTcp(_, _, _)
FindTcp(s, i, token) ==
    IF i > Len(s) THEN 0
    ELSE LET after == i + SpanDigits(s, i) + 4
         IN  IF /\ IsDigit(Char(s, i))
                /\ MatchAt(s, i + SpanDigits(s, i), "/tcp")
                /\ token => /\ SpanSpace(s, after) >= 1
                            /\ SpanNonSpace(s, after + SpanSpace(s, after)) >= 1
             THEN i
             ELSE FindTcp(s, i + 1, token)

\* the number in the first <digits>/tcp of s, 0 when there is none
FindingPort(s) ==
    LET i == FindTcp(s, 1, FALSE)
    IN  IF i = 0 THEN 0 ELSE DigitsToInt(SubSeq(s, i, i + SpanDigits(s, i) - 1))

\* the token after a <digits>/tcp of s, or the service of the script family
FindingService(s) ==
    LET i == FindTcp(s, 1, TRUE)
        k == i + SpanDigits(s, i) + 4 + SpanSpace(s, i + SpanDigits(s, i) + 4)
    IN  IF i # 0 THEN SubSeq(s, k, k + SpanNonSpace(s, k) - 1)
        ELSE IF Contains(s, "smb-vuln") THEN "smb"
        ELSE IF Contains(s, "http-vuln") THEN "http"
        ELSE "host_level_service"

\* the patterns in their order of priority, each with its test on the
\* stripped line t; the rule of a line is the first whose test it passes
Patterns(t) ==
    << [rule |-> "header",        test |-> Contains(t, "Nmap scan report for")],
       [rule |-> "mac",           test |-> mac_pattern(t) # None],
       [rule |-> "os",            test |-> os_pattern(t) # None],
       [rule |-> "ports_marker",  test |-> StartsWith(t, "PORT      STATE SERVICE")],
       [rule |-> "script_marker", test |-> StartsWith(t, "Host script results:")],
       [rule |-> "noise",         test |-> \/ StartsWith(t, "Discovered open port")
                                           \/ StartsWith(t, "Initiating ")
                                           \/ StartsWith(t, "Completed ")],
       [rule |-> "content",       test |-> TRUE] >>

FirstMatch(t) ==
    LET passed == {n \in DOMAIN Patterns(t) : Patterns(t)[n].test}
    IN  Patterns(t)[CHOOSE n \in passed : \A m \in passed : n <= m].rule

\* how the specification reads a line: as a port row, and as a script line
Reading(raw) ==
    LET fields == Split(Strip(raw))
        low    == Lower(Strip(raw))
        row    == /\ Len(fields) >= 3
                  /\ IsPortProto(fields[1])
                  /\ fields[2] \in {"open", "closed", "filtered"}
    IN  [ row       |-> row,
          state     |-> IF row THEN fields[2] ELSE "",
          port      |-> IF row THEN DigitsToInt(SubSeq(fields[1], 1, SpanDigits(fields[1], 1)))
                        ELSE 0,
          service   |-> IF row THEN fields[3] ELSE "",
          script    |-> StartsWith(Strip(raw), "|_") \/ StartsWith(Strip(raw), "| "),
          indicates |-> Contains(low, "vulnerable") \/ Contains(low, "vulnerability"),
          negated   |-> \/ Contains(low, "false")
                        \/ Contains(low, "could not negotiate")
                        \/ Contains(low, "error"),
          rule            |-> IF Strip(raw) = "" THEN "blank" ELSE FirstMatch(Strip(raw)),
          patterns        |-> IF Strip(raw) = "" THEN {}
                              ELSE {Patterns(Strip(raw))[n].rule :
                                      n \in {m \in 1..7 : Patterns(Strip(raw))[m].test}},
          finding_port    |-> FindingPort(Strip(raw)),
          finding_service |-> FindingService(Strip(raw)) ]

Readings == [raw \in AllLines |-> Reading(raw)]

R(raw) == Readings[raw]

\* the lines of the output fixed in advance
out == nmap_output.lines

\* position of the header that opens the block line k of out lies in (0: none)
RECURSIVE HeaderBefore(_)
HeaderBefore(k) ==
    IF k = 0 THEN 0
    ELSE IF F(out[k]).branch = "header" THEN k
    ELSE HeaderBefore(k - 1)

\* last line of the block opened by the header at position h
RECURSIVE BlockEnd(_)
BlockEnd(h) ==
    IF h = Len(out) \/ F(out[h + 1]).branch = "header" THEN h ELSE BlockEnd(h + 1)

\* the last value the lines h+1..e supply for a field of the accumulator
RECURSIVE LastMac(_, _)
LastMac(h, e) ==
    IF e = h THEN [mac |-> None, vendor |-> None]
    ELSE IF F(out[e]).branch = "mac" THEN [mac |-> F(out[e]).mac, vendor |-> F(out[e]).vendor]
    ELSE LastMac(h, e - 1)

RECURSIVE LastOs(_, _)
LastOs(h, e) ==
    IF e = h THEN None
    ELSE IF F(out[e]).branch = "os" /\ F(out[e]).os # None THEN F(out[e]).os
    ELSE LastOs(h, e - 1)

\* the block of the header at h has been saved once the first n lines are read
Saved(h, n) == BlockEnd(h) < n \/ (BlockEnd(h) = n /\ n = Len(out) /\ pc = "idle")

\* the headers of out that name a host
HostHeaders == {h \in 1..Len(out) : F(out[h]).branch = "header" /\ F(out[h]).ip # ""}

\* C1: no two Device rows ever share an ip, and once a pass has returned
\* every host named by a header line of its output has exactly one Device
\* row, also a host whose header is followed by no port or script data.
C1_OneDevicePerHost ==
    /\ \A ip \in {devices[i].ip : i \in DOMAIN devices} :
          Cardinality(DeviceRows(devices, ip)) = 1
    /\ (pc = "idle" /\ ts > 0) =>
          \A ip \in hosts_seen : Cardinality(DeviceRows(devices, ip)) = 1

\* a second pass has returned whose output was a lone header of a host the
\* first pass had already stored
C1_Witness ==
    /\ pc = "idle" /\ ts = 2 /\ consumed = 1
    /\ hosts_seen = {"10.0.0.6"}
    /\ DeviceRows(snapshot.devices, "10.0.0.6") # {}
    /\ Cardinality(DeviceRows(devices, "10.0.0.6")) = 1

\* C2: at most one vulnerabilities row per (device_ip, port, service), in
\* the tables the parser sees and in the committed ones.
C2_OneRowPerKey ==
    /\ \A key \in Keys(vulnerabilities) : Cardinality(KeyRows(vulnerabilities, key)) = 1
    /\ \A key \in Keys(committed.vulnerabilities) :
          Cardinality(KeyRows(committed.vulnerabilities, key)) = 1

\* an open-port row has been read for a key whose informational row an
\* earlier pass had stored, and the key still has its one row
C2_Witness ==
    /\ pc = "loop" /\ ts = 2
    /\ line = Some(OpenRow) /\ parsing_ports_section /\ Truthy(current_ip)
    /\ \E i \in KeyRows(snapshot.vulnerabilities, << current_ip[1], 80, "http" >>) :
          snapshot.vulnerabilities[i].severity = "Informational"
    /\ Cardinality(KeyRows(vulnerabilities, << current_ip[1], 80, "http" >>)) = 1

\* C3 as stated: after the same output has been parsed a second time, the
\* Device rows and the Informational rows are identical to those the first
\* parse left.
C3_IdenticalRows ==
    (nmap_output.known /\ pc = "idle" /\ ts >= 2) =>
        /\ devices = snapshot.devices
        /\ InformationalRows(vulnerabilities) = InformationalRows(snapshot.vulnerabilities)

\* C3 amended: after the same output has been parsed again, the Device rows
\* are those the previous parse left except that last_seen is the timestamp
\* of the later pass, the Informational rows are identical, and neither
\* table has a duplicate.
C3_IdempotentButLastSeen ==
    (nmap_output.known /\ pc = "idle" /\ ts >= 2) =>
        /\ DOMAIN devices = DOMAIN snapshot.devices
        /\ \A i \in DOMAIN devices :
              devices[i] = [snapshot.devices[i] EXCEPT !.last_seen = Some(ts)]
        /\ InformationalRows(vulnerabilities) = InformationalRows(snapshot.vulnerabilities)
        /\ \A i, j \in DOMAIN devices : devices[i].ip = devices[j].ip => i = j
        /\ \A i, j \in DOMAIN vulnerabilities :
              Key(vulnerabilities[i]) = Key(vulnerabilities[j]) => i = j

\* an output with a host and an open port has been parsed twice
C3_Witness ==
    /\ nmap_output.known /\ pc = "idle" /\ ts = 2
    /\ devices # << >>
    /\ InformationalRows(vulnerabilities) # << >>
    /\ \E i \in DOMAIN devices : devices[i].last_seen # snapshot.devices[i].last_seen

\* C4: when the output ends, the host of its last header is saved: after
\* the pass it has a Device row stamped by this pass, also when the header
\* is the very last line.
C4_LastHostSaved ==
    (nmap_output.known /\ pc = "idle" /\ ts > 0 /\ HeaderBefore(Len(out)) # 0) =>
        LET ip == F(out[HeaderBefore(Len(out))]).ip
        IN  ip # "" =>
              /\ DeviceRows(devices, ip) # {}
              /\ \A i \in DeviceRows(devices, ip) :
                    devices[i].status = Some("up") /\ devices[i].last_seen = Some(ts)

\* a first pass has returned whose output ended with a header line
C4_Witness ==
    /\ nmap_output.known /\ pc = "idle" /\ ts = 1
    /\ Len(out) = 2 /\ out[2] = HeaderB
    /\ DeviceRows(devices, "10.0.0.6") # {}

\* C5: a line that the host-script rule takes as evidence for a key updates
\* the row of that key in place when there is one (evidence the line,
\* severity High, timestamp of the pass, row count unchanged) and otherwise
\* appends exactly one such row.
C5_ScriptUpsert ==
    [][ (ScriptRuleStep /\ F(line'[1]).evidence) =>
          LET key == << current_ip[1], F(line'[1]).script_port, F(line'[1]).script_service >>
              new == [device_ip |-> key[1], port |-> key[2], service |-> key[3],
                      script_output |-> Strip(line'[1]), severity |-> "High",
                      timestamp |-> ts]
          IN  IF KeyRows(vulnerabilities, key) # {}
              THEN /\ Len(vulnerabilities') = Len(vulnerabilities)
                   /\ \A i \in DOMAIN vulnerabilities :
                         vulnerabilities'[i] =
                            IF i \in KeyRows(vulnerabilities, key) THEN new
                            ELSE vulnerabilities[i]
              ELSE vulnerabilities' = Append(vulnerabilities, new) ]_vars

\* the informational row an earlier pass stored has been upgraded in place
C5_Witness ==
    /\ pc = "loop" /\ line = Some(VulnPortLine) /\ parsing_host_script_results
    /\ Truthy(current_ip)
    /\ Len(vulnerabilities) = Len(snapshot.vulnerabilities)
    /\ \E i \in DOMAIN vulnerabilities :
          /\ Key(vulnerabilities[i]) = << current_ip[1], 80, "http" >>
          /\ snapshot.vulnerabilities[i].severity = "Informational"
          /\ vulnerabilities[i].severity = "High"
          /\ vulnerabilities[i].script_output = VulnPortLine
          /\ vulnerabilities[i].timestamp = ts

\* C6: a port row (three fields or more, <port>/<proto>, state open, closed
\* or filtered) read under the ports rule writes nothing unless its state is
\* open; an open row leaves its key stored, and a row it adds is (current
\* ip, port, service, "Open port detected", Informational).
C6_PortsRule ==
    [][ (PortsRuleStep /\ R(line'[1]).row) =>
          LET new == [device_ip |-> current_ip[1], port |-> R(line'[1]).port,
                      service |-> R(line'[1]).service,
                      script_output |-> "Open port detected",
                      severity |-> "Informational", timestamp |-> ts]
          IN  IF R(line'[1]).state = "open"
              THEN /\ KeyRows(vulnerabilities', Key(new)) # {}
                   /\ \/ vulnerabilities' = vulnerabilities
                      \/ vulnerabilities' = Append(vulnerabilities, new)
                   /\ KeyRows(vulnerabilities, Key(new)) = {} =>
                         vulnerabilities' = Append(vulnerabilities, new)
              ELSE vulnerabilities' = vulnerabilities ]_vars

\* an open row has just added its informational row
C6_Witness ==
    /\ pc = "loop" /\ line = Some(OpenRow) /\ parsing_ports_section /\ Truthy(current_ip)
    /\ Len(vulnerabilities) = Len(snapshot.vulnerabilities) + 1
    /\ vulnerabilities[Len(vulnerabilities)] =
          [device_ip |-> current_ip[1], port |-> 80, service |-> "http",
           script_output |-> "Open port detected", severity |-> "Informational",
           timestamp |-> ts]

\* C7: an open-port row whose key already has a row changes nothing in the
\* table, whatever the severity of that row.
C7_OpenPortNoOp ==
    [][ ( /\ PortsRuleStep
          /\ R(line'[1]).row /\ R(line'[1]).state = "open"
          /\ KeyRows(vulnerabilities,
                     << current_ip[1], R(line'[1]).port, R(line'[1]).service >>) # {} )
        => vulnerabilities' = vulnerabilities ]_vars

\* an open row has been read for a key that an earlier pass had upgraded
\* to High: the row still has the script's evidence and the old timestamp
C7_Witness ==
    /\ pc = "loop" /\ line = Some(OpenRow) /\ parsing_ports_section /\ Truthy(current_ip)
    /\ \E i \in KeyRows(vulnerabilities, << current_ip[1], 80, "http" >>) :
          /\ vulnerabilities[i].severity = "High"
          /\ vulnerabilities[i].script_output = VulnPortLine
          /\ vulnerabilities[i].timestamp < ts

\* C8: a script line ("|_" or "| ") read under the host-script rule leaves
\* its key stored as High with the line as evidence when it contains
\* "vulnerable" or "vulnerability" and none of "false", "could not
\* negotiate", "error" (any case), and otherwise changes nothing.
C8_EvidenceIff ==
    [][ (ScriptRuleStep /\ R(line'[1]).script) =>
          IF R(line'[1]).indicates /\ ~R(line'[1]).negated
          THEN \E i \in DOMAIN vulnerabilities' :
                  /\ vulnerabilities'[i].device_ip = current_ip[1]
                  /\ vulnerabilities'[i].script_output = Strip(line'[1])
                  /\ vulnerabilities'[i].severity = "High"
                  /\ vulnerabilities'[i].timestamp = ts
          ELSE vulnerabilities' = vulnerabilities ]_vars

\* the line with "vulnerable" and "could not negotiate" has been read under
\* the host-script rule and the table is as the pass found it
C8_Witness ==
    /\ pc = "loop" /\ line = Some(NegatedLine) /\ parsing_host_script_results
    /\ Truthy(current_ip) /\ consumed = 3
    /\ vulnerabilities = snapshot.vulnerabilities

\* C9: once the block of a host's header is over (the next header has been
\* read, or the pass has returned), the host has one Device row, stamped by
\* this pass, whose mac, vendor and os are the last ones the lines of that
\* block supply, null when the block supplies none; and the output header,
\* MAC with vendor, ports marker, open port 80 http, blank gives that
\* Device and that one Informational row.
C9_BlockScopedDevice ==
    /\ (nmap_output.known /\ ts > 0) =>
          \A h \in HostHeaders :
             ( /\ h <= consumed
               /\ Saved(h, consumed)
               /\ \A g \in HostHeaders :
                     (g > h /\ F(out[g]).ip = F(out[h]).ip) => ~(g <= consumed /\ Saved(g, consumed)) )
             => /\ Cardinality(DeviceRows(devices, F(out[h]).ip)) = 1
                /\ \A i \in DeviceRows(devices, F(out[h]).ip) :
                      devices[i] =
                         [ip |-> F(out[h]).ip,
                          mac |-> LastMac(h, BlockEnd(h)).mac,
                          vendor |-> LastMac(h, BlockEnd(h)).vendor,
                          os |-> LastOs(h, BlockEnd(h)),
                          status |-> Some("up"), last_seen |-> Some(ts)]
    /\ (nmap_output.known /\ out = ScenarioPorts /\ pc = "idle" /\ ts = 1) =>
          /\ devices = << [ip |-> "10.0.0.5", mac |-> Some("AA:BB:CC:DD:EE:FF"),
                           vendor |-> Some("Acme Corp"), os |-> None,
                           status |-> Some("up"), last_seen |-> Some(1)] >>
          /\ vulnerabilities = << [device_ip |-> "10.0.0.5", port |-> 80,
                                   service |-> "http",
                                   script_output |-> "Open port detected",
                                   severity |-> "Informational", timestamp |-> 1] >>

\* a host with a MAC line was saved by the header of the next host, whose
\* own row has no mac
C9_Witness ==
    /\ nmap_output.known /\ pc = "idle" /\ ts = 1
    /\ out = << HeaderA, MacVendorLine, HeaderB >>
    /\ \E i \in DeviceRows(devices, "10.0.0.5") : devices[i].vendor = Some("Acme Corp")
    /\ \E i \in DeviceRows(devices, "10.0.0.6") : devices[i].mac = None

\* C10 as stated: a mac or vendor stored when a pass starts is not null
\* when the pass has returned.
C10_NullNeverOverwrites ==
    pc = "idle" =>
        \A i \in DOMAIN snapshot.devices :
            /\ snapshot.devices[i].mac # None => devices[i].mac # None
            /\ snapshot.devices[i].vendor # None => devices[i].vendor # None

\* C10 amended: every save of a host stores the mac and the vendor the pass
\* holds for it, a null included, whatever the row held.
C10_LaterScanOverwrites ==
    [][ SaveStep =>
          /\ DeviceRows(devices', current_ip[1]) # {}
          /\ \A i \in DeviceRows(devices', current_ip[1]) :
                devices'[i].mac = current_mac /\ devices'[i].vendor = current_vendor ]_vars

\* a second pass saw the host without a MAC line and nulled the stored mac
C10_Witness ==
    /\ pc = "idle" /\ ts = 2
    /\ \E i \in DOMAIN snapshot.devices :
          /\ snapshot.devices[i].mac # None /\ snapshot.devices[i].vendor # None
          /\ devices[i].mac = None /\ devices[i].vendor = None
          /\ devices[i].last_seen = Some(2)

\* C11: a save of the held host leaves exactly one Device row for its ip,
\* whose mac, vendor and os are the accumulator's at the save (null
\* included), whose status is "up" and whose last_seen is the timestamp of
\* the pass, whatever the row held before; no other row changes.
C11_UnconditionalUpdate ==
    [][ SaveStep =>
          /\ Cardinality(DeviceRows(devices', current_ip[1])) = 1
          /\ \A i \in DeviceRows(devices', current_ip[1]) :
                devices'[i] = [ip |-> current_ip[1], mac |-> current_mac,
                               vendor |-> current_vendor, os |-> current_os,
                               status |-> Some("up"), last_seen |-> Some(ts)]
          /\ \A i \in DOMAIN devices :
                devices[i].ip # current_ip[1] => devices'[i] = devices[i] ]_vars

\* a later pass has replaced the os an earlier pass had stored
C11_Witness ==
    /\ pc = "idle" /\ ts = 2
    /\ \E i \in DOMAIN snapshot.devices :
          /\ snapshot.devices[i].os = Some("Linux 5.4")
          /\ devices[i].os = Some("Linux 4.X")
          /\ devices[i].ip = snapshot.devices[i].ip

\* C12: a row of severity High keeps its key and its severity High in
\* every later state of the table, and of the committed table, through any
\* lines and any later passes.
C12_HighStaysHigh ==
    [][ /\ \A i \in DOMAIN vulnerabilities :
              vulnerabilities[i].severity = "High" =>
                 /\ i \in DOMAIN vulnerabilities'
                 /\ Key(vulnerabilities'[i]) = Key(vulnerabilities[i])
                 /\ vulnerabilities'[i].severity = "High"
        /\ \A i \in DOMAIN committed.vulnerabilities :
              committed.vulnerabilities[i].severity = "High" =>
                 /\ i \in DOMAIN committed'.vulnerabilities
                 /\ Key(committed'.vulnerabilities[i]) = Key(committed.vulnerabilities[i])
                 /\ committed'.vulnerabilities[i].severity = "High" ]_vars

\* a later pass over the same host, without the script evidence, has
\* returned and the High row of the earlier pass is as it was
C12_Witness ==
    /\ pc = "idle" /\ ts = 2
    /\ \E i \in DOMAIN vulnerabilities :
          /\ vulnerabilities[i].severity = "High"
          /\ vulnerabilities[i].timestamp = 1
          /\ vulnerabilities[i].device_ip \in hosts_seen
          /\ committed.vulnerabilities[i] = vulnerabilities[i]

\* C14: every write made for a line is committed before the next line is
\* processed: between two lines, and between two passes, the committed
\* tables are the tables the parser has written.
C14_CommittedPerWrite ==
    /\ committed.devices = devices
    /\ committed.vulnerabilities = vulnerabilities

\* C13: a storage error on a write does not abort the parse: no exception
\* leaves the function, and when the pass has returned at most the hosts
\* whose own save raised are without a committed Device row stamped by the
\* pass.
C13_ErrorRecovered ==
    /\ pc # "raised"
    /\ (pc = "idle" /\ ts > 0) =>
          Cardinality({ip \in hosts_seen :
                         \A i \in DeviceRows(committed.devices, ip) :
                            committed.devices[i].last_seen # Some(ts)}) <= faults

\* C15: no committed Device row is half-updated: every row a reader can
\* see has had the update of its save applied (status "up", last_seen
\* set), also when a statement of a save has raised.
C15_NoHalfUpdatedDevice ==
    \A i \in DOMAIN committed.devices :
        /\ committed.devices[i].status = Some("up")
        /\ committed.devices[i].last_seen # None

\* the finished signal the window's thread is handling came from a scan
\* whose tool was missing or could not be started
UpstreamFailed ==
    /\ handled # None
    /\ threads[handled[1].sender].tool.kind \in {"missing", "raises"}

\* the finished signals of thread k that are queued or being handled
Terminal(k) ==
    Cardinality({i \in DOMAIN inbox : inbox[i].signal = "finished" /\ inbox[i].sender = k})
    + (IF handled # None /\ handled[1].sender = k THEN 1 ELSE 0)

\* C16: when the tool is missing or fails to run, the scan reports one
\* terminal message, no parse pass is entered for it, no devices or
\* vulnerabilities row is written or changed, and no scan is started for it
\* again.
C16_UpstreamFailureFatal ==
    [][ /\ \A k \in DOMAIN threads :
             threads[k].tool.kind \in {"missing", "raises"} => Terminal(k) <= 1
        /\ UpstreamFailed =>
             /\ pc' = "idle"
             /\ devices' = devices
             /\ vulnerabilities' = vulnerabilities
             /\ committed' = committed
             /\ Len(threads') = Len(threads) ]_vars

\* the scan threads whose run() has not returned
Active == {k \in DOMAIN threads : threads[k].state \in {"started", "reading"}}

\* C17: at any time at most one scan worker is active; a start request while
\* a scan is in flight never gives two workers running side by side.
C17_OneWorker == Cardinality(Active) <= 1

\* a step inside a handler of the window's thread
WindowStep == ui # "idle" \/ ui' # "idle"

\* C18: every write to scans, devices and vulnerabilities is made by a scan
\* worker; no step of the presentation loop's thread changes a table.
C18_WorkerOwnsWrites ==
    [][ WindowStep =>
          /\ scans' = scans
          /\ devices' = devices
          /\ vulnerabilities' = vulnerabilities
          /\ committed' = committed ]_vars

\* C19: recording a completed scan appends one scans row that holds the
\* target, the scan type and the raw output of that scan, whatever rows are
\* there already, and leaves every existing row as it was.
C19_RecordScanAppends ==
    [][ (ui = "save" /\ ui' = "emit") =>
          /\ Len(scans') = Len(scans) + 1
          /\ SubSeq(scans', 1, Len(scans)) = scans
          /\ scans'[Len(scans')].target = threads[handled[1].sender].target
          /\ scans'[Len(scans')].scan_type = threads[handled[1].sender].scan_type
          /\ scans'[Len(scans')].results = handled[1].arg ]_vars

Ips(devs) == {devs[i].ip : i \in DOMAIN devs}

C21_ScriptPortAndService ==
    [][ (ScriptRuleStep /\ R(line'[1]).script /\ R(line'[1]).indicates
           /\ ~R(line'[1]).negated) =>
          LET key == << current_ip[1], R(line'[1]).finding_port,
                        R(line'[1]).finding_service >>
          IN  /\ Keys(vulnerabilities') = Keys(vulnerabilities) \cup {key}
              /\ \A i \in KeyRows(vulnerabilities', key) :
                    /\ vulnerabilities'[i].severity = "High"
                    /\ vulnerabilities'[i].script_output = Strip(line'[1]) ]_vars

\* the script results of 10.0.0.5 have been parsed once: five findings, the
\* http-vuln line without a port stored as port 0, service "http"
C21_Witness ==
    /\ out = ScenarioScripts /\ pc = "idle" /\ ts = 1
    /\ Len(vulnerabilities) = 5
    /\ Keys(vulnerabilities) =
          { << "10.0.0.5", 0, "http" >>, << "10.0.0.5", 80, "http" >>,
            << "10.0.0.5", 0, "smb" >>, << "10.0.0.5", 0, "host_level_service" >>,
            << "10.0.0.5", 443, "https-alt" >> }
    /\ \A i \in DOMAIN vulnerabilities : vulnerabilities[i].severity = "High"

\* position of the last line among the first k of out that is blank, a host
\* header, a ports marker or a script marker (0: none)
RECURSIVE LastSectionLine(_)
LastSectionLine(k) ==
    IF k = 0 THEN 0
    ELSE IF F(out[k]).branch \in {"blank", "header", "ports_marker", "script_marker"} THEN k
    ELSE LastSectionLine(k - 1)

\* the line about to be read follows a line of branch b with no blank line,
\* header or marker in between
Follows(b) ==
    /\ LastSectionLine(consumed) # 0
    /\ F(out[LastSectionLine(consumed)]).branch = b

\* C24: a blank line ends the section: after it neither section is active,
\* and a line read before the next marker produces no finding.
C24_BlankEndsSection ==
    [][ LineStep =>
          /\ F(line'[1]).branch = "blank" =>
                ~parsing_ports_section' /\ ~parsing_host_script_results'
          /\ (Follows("blank") /\ F(line'[1]).branch = "content") =>
                vulnerabilities' = vulnerabilities ]_vars

\* C26: a host header ends the section: after it neither section is active,
\* and a port row or script line read before the next marker produces no
\* finding, whatever section the host before ended in.
C26_HeaderEndsSection ==
    [][ LineStep =>
          /\ F(line'[1]).branch = "header" =>
                ~parsing_ports_section' /\ ~parsing_host_script_results'
          /\ (Follows("header") /\ F(line'[1]).branch = "content") =>
                vulnerabilities' = vulnerabilities ]_vars

\* two hosts whose headers followed a port table and script results: the
\* open port and the vulnerable script line after them left no finding
C26_Witness ==
    /\ out = ScenarioHosts /\ pc = "idle" /\ ts = 1
    /\ vulnerabilities = << >>
    /\ Len(devices) = 2

\* the state of the section machine that two flags stand for
SectionState(ports, script) ==
    IF ports THEN "InPorts" ELSE IF script THEN "InHostScript" ELSE "Idle"

Section == SectionState(parsing_ports_section, parsing_host_script_results)

\* C25 as stated: a line changes the section state only from Idle to
\* InPorts at a ports marker, to InHostScript at a script marker, and to
\* Idle at a blank line or a host header.
C25_OnlyStatedTransitions ==
    [][ (LineStep /\ Section' # Section) =>
          \/ Section = "Idle" /\ Section' = "InPorts"
                /\ F(line'[1]).branch = "ports_marker"
          \/ Section' = "InHostScript" /\ F(line'[1]).branch = "script_marker"
          \/ Section' = "Idle" /\ F(line'[1]).branch \in {"blank", "header"} ]_vars

\* C25: a line changes the section state only to InPorts at a ports marker
\* (from Idle and from InHostScript), to InHostScript at a script marker,
\* and to Idle at a blank line or a host header; the two flags are never
\* set together.
C25_OnlyTransitions ==
    [][ /\ ~(parsing_ports_section' /\ parsing_host_script_results')
        /\ (LineStep /\ Section' # Section) =>
             \/ Section' = "InPorts" /\ F(line'[1]).branch = "ports_marker"
             \/ Section' = "InHostScript" /\ F(line'[1]).branch = "script_marker"
             \/ Section' = "Idle" /\ F(line'[1]).branch \in {"blank", "header"} ]_vars

\* a ports marker read inside the script results has opened the port table
C25_Witness ==
    /\ out = ScenarioOverlap /\ pc = "loop" /\ consumed = 4
    /\ line = Some(PortsMarkerLine)
    /\ Section = "InPorts"

\* position of the last host header or marker among the first k lines of
\* out (0: none); a blank line is not looked at by any section code
RECURSIVE LastMarker(_)
LastMarker(k) ==
    IF k = 0 THEN 0
    ELSE IF F(out[k]).branch \in {"header", "ports_marker", "script_marker"} THEN k
    ELSE LastMarker(k - 1)

\* line j of out is read as evidence by the host-script rule: a script
\* line that indicates a vulnerability, in the script results of a host
EvidenceAt(j) ==
    /\ F(out[j]).branch = "content"
    /\ R(out[j]).script /\ R(out[j]).indicates /\ ~R(out[j]).negated
    /\ LastMarker(j - 1) # 0
    /\ F(out[LastMarker(j - 1)]).branch = "script_marker"
    /\ HeaderBefore(j - 1) # 0
    /\ F(out[HeaderBefore(j - 1)]).ip # ""

\* the key that line j of out maps to
KeyAt(j) ==
    << F(out[HeaderBefore(j - 1)]).ip, R(out[j]).finding_port, R(out[j]).finding_service >>

Last(positions) == CHOOSE j \in positions : \A k \in positions : k <= j

\* C27: once a pass has returned, every High finding it touched holds as
\* evidence the last line of the output that the host-script rule read as
\* evidence for the finding's (ip, port, service).
C27_LastEvidenceWins ==
    (pc = "idle" /\ ts > 0) =>
       \A i \in DOMAIN vulnerabilities :
          (vulnerabilities[i].severity = "High" /\ vulnerabilities[i].timestamp = ts) =>
             LET written == {j \in 1..Len(out) :
                               EvidenceAt(j) /\ KeyAt(j) = Key(vulnerabilities[i])}
             IN  /\ written # {}
                 /\ vulnerabilities[i].script_output = Strip(out[Last(written)])

\* two http-vuln lines without a port in one output: the finding holds the
\* second
C27_Witness ==
    /\ out = ScenarioScripts /\ pc = "idle" /\ ts = 1
    /\ \E i \in DOMAIN vulnerabilities :
          /\ Key(vulnerabilities[i]) = << "10.0.0.5", 0, "http" >>
          /\ vulnerabilities[i].script_output = HttpVulnLine2
    /\ \E j, k \in 1..Len(out) :
          /\ j < k /\ out[j] = VulnLine /\ out[k] = HttpVulnLine2
          /\ EvidenceAt(j) /\ EvidenceAt(k) /\ KeyAt(j) = KeyAt(k)

C29_NoiseDiscarded ==
    [][ (LineStep /\ R(line'[1]).rule = "noise") =>
          UNCHANGED << store, accumulator, section >> ]_vars

\* "Discovered open port 80/tcp on 10.0.0.5" has been read inside the script
\* results of 10.0.0.5, after "Initiating ..." inside its port table
C29_Witness ==
    /\ out = ScenarioMismatch /\ pc = "loop" /\ consumed = 10
    /\ line = Some(NoiseLine) /\ Contains(NoiseLine, "80/tcp")
    /\ out[6] = InitiatingLine
    /\ Section = "InHostScript"
    /\ current_ip = Some("10.0.0.5")
    /\ Len(vulnerabilities) = 1

\* C30: every non-blank line has the effect of one rule only, the first in
\* the order host header, MAC, OS, ports marker, script marker, noise,
\* section content whose pattern it matches: a header touches no finding, a
\* MAC line only mac and vendor, an OS line only the os, a marker only the
\* section state, a noise line nothing, and section content neither the
\* accumulator nor the section state.
C30_FirstMatchWins ==
    [][ LineStep =>
          LET rule == R(line'[1]).rule
          IN  /\ rule = "header" =>
                    /\ vulnerabilities' = vulnerabilities
                    /\ Section' = "Idle"
                    /\ current_mac' = None /\ current_vendor' = None /\ current_os' = None
              /\ rule = "mac" =>
                    /\ current_mac' # None
                    /\ UNCHANGED << store, current_ip, current_os, section >>
              /\ rule = "os" =>
                    UNCHANGED << store, current_ip, current_mac, current_vendor, section >>
              /\ rule = "ports_marker" =>
                    Section' = "InPorts" /\ UNCHANGED << store, accumulator >>
              /\ rule = "script_marker" =>
                    Section' = "InHostScript" /\ UNCHANGED << store, accumulator >>
              /\ rule \in {"noise", "blank"} => UNCHANGED << store, accumulator, section >>
              /\ rule = "content" => UNCHANGED << devices, accumulator, section >> ]_vars

\* a script line that is also an OS line has set the os, a port row that is
\* also a MAC line has set the mac, and neither has left a finding: the only
\* finding is the open port read after them
C30_Witness ==
    /\ out = ScenarioOverlap /\ pc = "idle" /\ ts = 1
    /\ {"os", "content"} \subseteq R(OsScriptLine).patterns
    /\ {"mac", "content"} \subseteq R(MacRowLine).patterns
    /\ R(OsScriptLine).script /\ R(OsScriptLine).indicates /\ R(MacRowLine).row
    /\ devices = << [ip |-> "10.0.0.5", mac |-> Some("AA:BB:CC:DD:EE:FF"), vendor |-> None,
                     os |-> Some("Apache 2.4.49 VULNERABLE"), status |-> Some("up"),
                     last_seen |-> Some(1)] >>
    /\ Len(vulnerabilities) = 1
    /\ Key(vulnerabilities[1]) = << "10.0.0.5", 80, "http" >>
    /\ vulnerabilities[1].severity = "Informational"

Named(signals, name) ==
    SelectSeq(signals, LAMBDA m : m.signal = name)

\* the scan_percent values the lines call for: one per line whose text
\* before "% done" ends in a number, none for the others
RECURSIVE PercentEvents(_)
PercentEvents(prints) ==
    IF prints = << >> THEN << >>
    ELSE (IF Contains(Head(prints), "% done") /\ Percent(Head(prints)) # None
          THEN << Percent(Head(prints))[1] >>
          ELSE << >>) \o PercentEvents(Tail(prints))

\* C22: a thread whose tool ran and which has emitted finished has read
\* every line the tool printed: it emitted one progress event per kept
\* line, one scan_percent event with the truncated value per line with a
\* numeric percentage (45.50 gives 45) and none for a line whose percentage
\* is no number, and its finished event carries all the kept lines.
C22_ProgressParsing ==
    /\ G(ProgressLine).percent = Some(45)
    /\ G(GarbledPercentLine).percent = None
    /\ \A k \in DOMAIN threads :
          (threads[k].tool.kind = "runs" /\ threads[k].state = "finished") =>
             LET prints == threads[k].tool.prints
                 sent   == threads[k].sent
             IN  /\ threads[k].read = Len(prints)
                 /\ Len(Named(sent, "progress")) = Len(Kept(prints))
                 /\ \A i \in 1..Len(Named(sent, "progress")) :
                       Named(sent, "progress")[i].arg = Strip(Kept(prints)[i])
                 /\ Len(Named(sent, "scan_percent")) = Len(PercentEvents(Kept(prints)))
                 /\ \A i \in 1..Len(Named(sent, "scan_percent")) :
                       Named(sent, "scan_percent")[i].arg = PercentEvents(Kept(prints))[i]
                 /\ Named(sent, "finished") = << Signal("finished", k, Kept(prints)) >>

\* the lines of the tool that count: those without "Unknown property"
Counted(prints) ==
    SelectSeq(prints, LAMBDA l : ~Contains(l, "Unknown property"))

\* C31: output is consumed in arrival order: for a run whose tool printed
\* lines, the k-th progress event carries the k-th counted line, the
\* finished event carries exactly the counted lines in their order, and the
\* parser reads the lines of the finished event one by one in that order.
C31_ArrivalOrder ==
    /\ [](\A k \in DOMAIN threads :
            (threads[k].tool.kind = "runs" /\ threads[k].state = "finished") =>
               LET lines == Counted(threads[k].tool.prints)
                   shown == Named(threads[k].sent, "progress")
                   final == Named(threads[k].sent, "finished")
               IN  /\ Len(shown) = Len(lines)
                   /\ \A i \in 1..Len(shown) : shown[i].arg = Strip(lines[i])
                   /\ Len(final) = 1
                   /\ final[1].arg = lines)
    /\ [][ (handled # None /\ pc = "loop" /\ consumed' # consumed) =>
             /\ consumed' = consumed + 1
             /\ line' = Some(handled[1].arg[consumed']) ]_vars

\* C32: a run emits finished once and as its last event, whether the tool
\* is missing, fails to start, ends, or makes the read loop raise; in the
\* queue of the window's thread nothing of a run stands behind its finished
\* event, and while finished is handled nothing of that run is left.
C32_OneFinishedLast ==
    /\ \A k \in DOMAIN threads :
          LET sent == threads[k].sent
              n    == Len(Named(sent, "finished"))
          IN  /\ n <= 1
              /\ Terminal(k) <= 1
              /\ threads[k].state \in {"started", "reading"} => n = 0
              /\ threads[k].state = "finished" =>
                    n = 1 /\ sent[Len(sent)].signal = "finished"
    /\ \A i \in DOMAIN inbox : \A j \in DOMAIN inbox :
          (i < j /\ inbox[i].sender = inbox[j].sender) => inbox[i].signal # "finished"
    /\ handled # None =>
          \A i \in DOMAIN inbox : inbox[i].sender # handled[1].sender

\* the finished event of a run with progress and percent events is being
\* handled after all of them, and a run without the tool has ended as well
C32_Witness ==
    /\ handled # None
    /\ threads[handled[1].sender].tool = ToolHostDown
    /\ Len(threads[handled[1].sender].sent) = 5
    /\ progress_chart = 45
    /\ Len(results_display) >= 4
    /\ \E k \in DOMAIN threads :
          threads[k].tool.kind = "missing" /\ threads[k].state = "finished"

\* C33: when scan_completed is delivered (the views reload), the scans row
\* of the finished scan is stored, and so is every device and finding of its
\* output: what finish_scan does after the notification adds or changes no
\* committed row.
C33_RefreshSeesResults ==
    [][ /\ (ui = "emit" /\ ui' = "parse") =>
             /\ scans # << >>
             /\ scans[Len(scans)].results = handled[1].arg
        /\ (handled # None /\ ui \in {"parse", "parsing"} /\ alive') =>
             committed' = committed ]_vars

\* the scan invocations that row can stand for: threads with the row's
\* target and scan type whose finished event carried the row's output
Invocations(row) ==
    {k \in DOMAIN threads :
        /\ threads[k].target = row.target
        /\ threads[k].scan_type = row.scan_type
        /\ \E i \in DOMAIN threads[k].sent :
              /\ threads[k].sent[i].signal = "finished"
              /\ threads[k].sent[i].arg = row.results}

\* C34: every scans row holds the output of one scan invocation together
\* with the target and the scan type of that same invocation, whatever the
\* order of start requests and finished events.
C34_RowOfOneInvocation ==
    \A i \in DOMAIN scans : Invocations(scans[i]) # {}

\* the hosts that the header lines of an output name
HostsOf(output) == UNION {HostsNamed(output[i]) : i \in DOMAIN output}

\* the handler of the finished event of thread k has parsed all the lines
\* the tool of k printed
Drained(k) ==
    /\ handled # None
    /\ handled[1].sender = k
    /\ handled[1].arg = Counted(threads[k].tool.prints)
    /\ ui = "dashboard"

\* C35: when the tool is terminated before it finishes, unless the
\* application process itself ends, the run still delivers every line the
\* tool had printed and a finished event with them, the parse of that output
\* returns, and when it returns every host its header lines name has its
\* device row committed.
C35_TerminationDrained ==
    /\ \A k \in 1..MaxScans :
          (k \in DOMAIN threads /\ threads[k].tool.exit # 0 /\ threads[k].state = "started")
             ~> (k \in DOMAIN threads /\ (threads[k].state = "dead" \/ Drained(k)))
    /\ [][ (ui = "parsing" /\ ui' = "dashboard" /\ threads[handled[1].sender].tool.exit # 0) =>
             /\ Len(Named(threads[handled[1].sender].sent, "progress")) =
                   Len(Counted(threads[handled[1].sender].tool.prints))
             /\ HostsOf(handled[1].arg) # {}
             /\ \A ip \in HostsOf(handled[1].arg) : HasDevice(committed'.devices, ip) ]_vars

\* the output of the terminated tool has been parsed on a fresh database:
\* its host and the two findings seen before the termination are stored
C35_Witness ==
    /\ \E k \in DOMAIN threads : threads[k].tool = ToolKilled /\ Drained(k)
    /\ Len(scans) = 1
    /\ Ips(committed.devices) = {"10.0.0.6"}
    /\ Len(committed.vulnerabilities) = 2

\* the rows of the findings table that this step inserts or changes
Written ==
    {i \in DOMAIN vulnerabilities' :
        i > Len(vulnerabilities) \/ vulnerabilities'[i] # vulnerabilities[i]}

\* C36: a line that makes the pass write a finding row stands after a host
\* header, and every row it writes has the ip taken from the latest header
\* before it (the last token, parentheses stripped); before any header no
\* marker, port row or script line writes a finding.
C36_FindingOfLatestHeader ==
    [][ (LineStep /\ Written # {}) =>
          /\ HeaderBefore(consumed) # 0
          /\ \A i \in Written :
                vulnerabilities'[i].device_ip =
                   StripParens(Split(out[HeaderBefore(consumed)])
                                  [Len(Split(out[HeaderBefore(consumed)]))]) ]_vars

\* a first pass has returned: the port row before the first header wrote
\* nothing, each host has the finding of its own block
C36_Witness ==
    /\ pc = "idle" /\ ts = 1 /\ out = ScenarioTwoHosts
    /\ Len(vulnerabilities) = 2
    /\ Key(vulnerabilities[1]) = << "10.0.0.5", 80, "http" >>
    /\ Key(vulnerabilities[2]) = << "10.0.0.6", 0, "http" >>

\* the finding rows that the pass just returned has inserted or changed
WrittenInPass ==
    {i \in DOMAIN vulnerabilities :
        \/ i > Len(snapshot.vulnerabilities)
        \/ vulnerabilities[i] # snapshot.vulnerabilities[i]}

\* C37: once a pass has returned, every finding row it inserted or upgraded
\* has a device row with its ip, in the tables and in what is committed.
C37_FindingHasDevice ==
    (pc = "idle" /\ ts > 0) =>
        \A i \in WrittenInPass :
            /\ HasDevice(devices, vulnerabilities[i].device_ip)
            /\ HasDevice(committed.devices, vulnerabilities[i].device_ip)

\* a pass has returned that wrote findings for two hosts, the second of
\* them saved by the final flush
C37_Witness ==
    /\ pc = "idle" /\ ts = 1 /\ out = ScenarioTwoHosts
    /\ Cardinality(WrittenInPass) = 2
    /\ Ips(committed.devices) = {"10.0.0.5", "10.0.0.6"}
    /\ {vulnerabilities[i].device_ip : i \in WrittenInPass} = {"10.0.0.5", "10.0.0.6"}

\* C38: while the finished event of a run whose tool was missing or could
\* not be launched is handled, no row is added to scans: only runs of the
\* tool leave a scans row.
C38_NoRecordOfFailedLaunch ==
    [][ UpstreamFailed => scans' = scans ]_vars

\* a "done" summary line with a count of hosts up
DoneSummary(l) ==
    /\ StartsWith(l, "Nmap done: ")
    /\ Contains(l, " host up)") \/ Contains(l, " hosts up)")

\* C39: finish_scan reports success exactly when the output has a "done"
\* summary line with a host-up count, whatever the numbers of addresses and
\* of hosts up, and failure otherwise; in both cases, when the handler
\* reaches its last statement the output is stored as a scans row and has
\* been parsed to its end.
C39_SuccessSignal ==
    [][ /\ (ui = "idle" /\ ui' = "save") =>
             activity_feed'[Len(activity_feed')].level =
                IF \E i \in DOMAIN handled'[1].arg : DoneSummary(handled'[1].arg[i])
                THEN "success" ELSE "error"
        /\ (ui = "parsing" /\ ui' = "dashboard") =>
             /\ scans # << >> /\ scans[Len(scans)].results = handled[1].arg
             /\ out = handled[1].arg /\ consumed = Len(out) /\ pc' = "idle" ]_vars

====
